---- MODULE Spec2Model ----
(***************************************************************************)
(* A model of StorageSqlite (packages/opencode/src/storage/sqlite.ts): the *)
(* canonical tables (sessions, messages, message_parts, session_diff), the *)
(* derived session_index table, the meta flag that guards the lazy         *)
(* backfill, and the public operations on them.                            *)
(*                                                                         *)
(* Encoding of values.  A table is a function from the primary keys that   *)
(* are present to rows.  Identifiers are TEXT compared bytewise by SQLite; *)
(* they are modelled by naturals with the same order.  A title is a tuple  *)
(* of characters.  A JavaScript undefined (or a missing property) of a     *)
(* string field is Undef, a value that is not a string is NotStr, SQL NULL *)
(* in a TEXT column is Null; for a number field undefined, JavaScript null *)
(* and SQL NULL are all NullInt (the code reads every number field through *)
(* `?? null` or `?? 0`).  Nested optional objects (time, summary, share,   *)
(* worktree) are flattened to their leaves.  A nullable column that holds  *)
(* JSON text (session_index.data) is the empty list when it is NULL.       *)
(***************************************************************************)
EXTENDS Integers, Sequences, FiniteSets, TLC

VARIABLES
  sessions,       \* table sessions: id -> [projectID, parentID, created_at, updated_at, data]
  session_index,  \* table session_index: id -> SessionIndexRecord
  meta,           \* table meta: key -> value
  messages,       \* table messages: id -> [sessionID, created_at, data]
  message_parts,  \* table message_parts: <<sessionID, messageID, id>> -> data
  session_diff,   \* table session_diff: sessionID -> data
  call,           \* the last public operation called, with its input and whether it threw
  ret,            \* what that operation returned
  sweeps,         \* history: how many times the backfill enumerated the canonical sessions
  pager           \* a caller that pages through listMessagesPage

tables == <<sessions, session_index, meta, messages, message_parts, session_diff>>
vars == <<sessions, session_index, meta, messages, message_parts, session_diff,
          call, ret, sweeps, pager>>

(***************************************************************************)
(* Bounds of the model.                                                    *)
(***************************************************************************)
MaxSession == 2      \* session ids 1..MaxSession
MaxFaultSession == 1 \* session ids 1..MaxFaultSession in the specification with failures
MaxListSession == 3  \* session ids 1..MaxListSession in the listing specifications
MaxTime == 1         \* timestamps 0..MaxTime
MaxSweeps == 2       \* the backfill is not started again after this many sweeps
MaxMessage == 3      \* message ids 1..MaxMessage
MaxPageMessage == 4  \* message ids 1..MaxPageMessage in the paging specification
MaxLimit == 2        \* page limits 0..MaxLimit
MaxPart == 2         \* part ids 1..MaxPart
MaxPages == 3        \* a paging run over the session index fetches at most MaxPages pages

(***************************************************************************)
(* Values.                                                                 *)
(***************************************************************************)
Undef == "undefined"
NotStr == "not-a-string"
Null == "null"
NullInt == -1
\* the empty string as an id: below every id, and false in a condition
EmptyID == 0
UndefT == <<"undefined">>
NotStrT == <<"not-a-string">>
SeededKey == "session-index-seeded"

IsString(v) == v \notin {Undef, NotStr, Null}
IsStringT(t) == t \notin {UndefT, NotStrT}

\* a ?? b on number fields
Coalesce(a, b) == IF a = NullInt THEN b ELSE a
\* a ?? null on string fields
OrNull(a) == IF a = Undef THEN Null ELSE a

Max(a, b) == IF a >= b THEN a ELSE b
Min(a, b) == IF a <= b THEN a ELSE b

\* INSERT OR REPLACE of one row, DELETE of one row
Put(t, k, v) == [x \in DOMAIN t \cup {k} |-> IF x = k THEN v ELSE t[x]]
Del(t, k) == [x \in DOMAIN t \ {k} |-> t[x]]
EmptyTable == [x \in {} |-> 0]

\* a query's .get(): the row, as a list of zero or one row
Get(t, k) == IF k \in DOMAIN t THEN <<t[k]>> ELSE <<>>

(***************************************************************************)
(* Meta store.                                                             *)
(***************************************************************************)
metaGet(m, key) == IF key \in DOMAIN m THEN m[key] ELSE Undef

metaSet(m, key, value) == Put(m, key, value)

\* if (seeded) return: a string is truthy unless it is empty
Truthy(v) == v \notin {Undef, Null, ""}

Seeded == Truthy(metaGet(meta, SeededKey))

(***************************************************************************)
(* Session payloads.  JSON.stringify drops the properties that are         *)
(* undefined and JSON.parse reads back what is left; in this encoding a    *)
(* missing property and an undefined one are the same value, so the stored *)
(* document is the record of the defined leaves.                           *)
(***************************************************************************)
BaseSession(id) ==
  [id |-> id, projectID |-> "p1", parentID |-> NullInt,
   title |-> UndefT, directory |-> Undef, version |-> Undef,
   created |-> NullInt, updated |-> NullInt, archived |-> NullInt,
   additions |-> NullInt, deletions |-> NullInt, files |-> NullInt,
   share_url |-> Undef, worktree_path |-> Undef, worktree_branch |-> Undef,
   mode |-> Undef, agent |-> Undef, model |-> Undef, variant |-> Undef,
   thinking |-> Undef, worktreeRequested |-> Undef, worktreeCleanup |-> Undef]

JSONstringify(v) == [json |-> v]
JSONparse(s) == s.json

\* a version that keeps every field that is not undefined
sessionIndexDataDefined(session) ==
  LET data == [mode |-> session.mode, agent |-> session.agent, model |-> session.model,
               variant |-> session.variant, thinking |-> session.thinking,
               worktreeRequested |-> session.worktreeRequested,
               worktreeCleanup |-> session.worktreeCleanup]
      has == \E f \in DOMAIN data : data[f] # Undef
  IN IF ~has THEN <<>> ELSE <<data>>

sessionIndexData(session) ==
  LET data == [mode |-> IF Truthy(session.mode) THEN session.mode ELSE Undef,
               agent |-> IF Truthy(session.agent) THEN session.agent ELSE Undef,
               model |-> IF Truthy(session.model) THEN session.model ELSE Undef,
               variant |-> session.variant,
               thinking |-> session.thinking,
               worktreeRequested |-> IF session.worktreeRequested \notin {Undef, Null, "", "false"}
                                     THEN "true" ELSE Undef,
               worktreeCleanup |-> IF Truthy(session.worktreeCleanup)
                                   THEN session.worktreeCleanup ELSE Undef]
      has == \E f \in DOMAIN data : data[f] # Undef
  IN IF ~has THEN <<>> ELSE <<data>>

\* The derived row, as a list of zero rows (the two early returns) or one row.
sessionIndexRow(session) ==
  LET title == IF IsStringT(session.title) THEN session.title ELSE <<>>
      directory == IF IsString(session.directory) THEN session.directory ELSE ""
      data == sessionIndexData(session)
      version == IF IsString(session.version) THEN session.version ELSE Null
      createdAt == session.created
      updatedAt == Coalesce(session.updated, createdAt)
  IN IF title = <<>> THEN <<>>
     ELSE IF directory = "" THEN <<>>
     ELSE << [id |-> session.id,
              projectID |-> session.projectID,
              parentID |-> session.parentID,
              title |-> title,
              directory |-> directory,
              version |-> version,
              created_at |-> createdAt,
              updated_at |-> updatedAt,
              archived_at |-> session.archived,
              additions |-> Coalesce(session.additions, 0),
              deletions |-> Coalesce(session.deletions, 0),
              files_changed |-> Coalesce(session.files, 0),
              share_url |-> OrNull(session.share_url),
              worktree_path |-> OrNull(session.worktree_path),
              worktree_branch |-> OrNull(session.worktree_branch),
              data |-> IF data # <<>> THEN <<JSONstringify(data[1])>> ELSE <<>>] >>

(***************************************************************************)
(* The database a statement runs against: the tables of the session side   *)
(* and the sweep counter.                                                  *)
(***************************************************************************)
Db == [sessions |-> sessions, session_index |-> session_index, meta |-> meta,
       sweeps |-> sweeps]

SetDb(d) ==
  /\ sessions' = d.sessions
  /\ session_index' = d.session_index
  /\ meta' = d.meta
  /\ sweeps' = d.sweeps

\* an upsert that on conflict keeps the stored value of a nullable column
\* when the new value is NULL
writeSessionIndexWithDbMerging(handle, session) ==
  LET row == sessionIndexRow(session)
      keep(old, new) ==
        [new EXCEPT !.version = IF @ = Null THEN old.version ELSE @,
                    !.archived_at = IF @ = NullInt THEN old.archived_at ELSE @,
                    !.share_url = IF @ = Null THEN old.share_url ELSE @,
                    !.data = IF @ = <<>> THEN old.data ELSE @]
  IN IF row = <<>> THEN handle
     ELSE IF row[1].id \in DOMAIN handle.session_index
       THEN [handle EXCEPT !.session_index =
               Put(handle.session_index, row[1].id,
                   keep(handle.session_index[row[1].id], row[1]))]
     ELSE [handle EXCEPT !.session_index = Put(handle.session_index, row[1].id, row[1])]

\* INSERT INTO session_index ... ON CONFLICT(id) DO UPDATE SET every column
writeSessionIndexWithDb(handle, session) ==
  LET row == sessionIndexRow(session)
  IN IF row = <<>> THEN handle
     ELSE [handle EXCEPT !.session_index = Put(handle.session_index, row[1].id, row[1])]

writeSessionIndex(d, session) == writeSessionIndexWithDb(d, session)

\* a sweep that upserts nothing
SweepRowsNothing(d, ids) == d

\* for (const row of rows) writeSessionIndex(JSON.parse(row.data)): one upsert
\* for each canonical row that derives an index row.  The upserts are by
\* primary key and the canonical rows have distinct ids, so the table after
\* the loop does not depend on the order of the rows.
SweepRows(d, ids) ==
  LET derived == UNION { {r[1]} : r \in
                         {sessionIndexRow(JSONparse(d.sessions[id].data)) : id \in ids} \ {<<>>} }
      upserted == {r.id : r \in derived}
  IN [d EXCEPT !.session_index =
        [x \in DOMAIN d.session_index \cup upserted |->
           IF x \in upserted THEN CHOOSE r \in derived : r.id = x
           ELSE d.session_index[x]]]

\* a backfill that also deletes the sessions that derive no row
ensureSessionIndexPruning(d) ==
  LET seeded == metaGet(d.meta, SeededKey)
  IN IF Truthy(seeded) THEN d
     ELSE LET swept == SweepRows([d EXCEPT !.sweeps = d.sweeps + 1], DOMAIN d.sessions)
              kept == {id \in DOMAIN d.sessions :
                         sessionIndexRow(JSONparse(d.sessions[id].data)) # <<>>}
          IN [swept EXCEPT !.meta = metaSet(swept.meta, SeededKey, "1"),
                           !.sessions = [id \in kept |-> d.sessions[id]]]

\* a backfill that does not look at the flag
ensureSessionIndexUnguarded(d) ==
  LET swept == SweepRows([d EXCEPT !.sweeps = d.sweeps + 1], DOMAIN d.sessions)
  IN [swept EXCEPT !.meta = metaSet(swept.meta, SeededKey, "1")]

ensureSessionIndex(d) ==
  LET seeded == metaGet(d.meta, SeededKey)
  IN IF Truthy(seeded) THEN d
     ELSE LET swept == SweepRows([d EXCEPT !.sweeps = d.sweeps + 1], DOMAIN d.sessions)
          IN [swept EXCEPT !.meta = metaSet(swept.meta, SeededKey, "1")]

\* returns the database after the call and the value returned
readSessionIndexRow(d, id) ==
  LET d1 == ensureSessionIndex(d)
  IN [db |-> d1, value |-> Get(d1.session_index, id)]

readSession(d, id) ==
  IF id \in DOMAIN d.sessions THEN <<JSONparse(d.sessions[id].data)>> ELSE <<>>

(***************************************************************************)
(* Transactions.  handle.transaction(fn) runs fn between BEGIN and COMMIT  *)
(* and rolls back when fn throws: the database is then the one before the  *)
(* call.  `reached` is the database at the point where fn returned or      *)
(* threw.                                                                  *)
(***************************************************************************)
transactionNoRollback(before, reached, threw) == reached

transaction(before, reached, threw) == IF threw THEN before ELSE reached

\* Statements that run one after the other outside a transaction keep what
\* the statements before the throw did.
autocommit(before, reached, threw) == reached

NoFail == "none"

\* The statements of writeSession's transaction body.  `fail` names the
\* statement the environment makes throw (an I/O error); the insert also
\* throws on its own when projectID is missing (sessions.projectID NOT NULL).
writeSessionInsertThrows(payload, fail) ==
  fail = "insert" \/ payload.projectID = Undef

writeSessionIndexThrows(payload, fail) ==
  fail = "index" /\ sessionIndexRow(payload) # <<>>

writeSessionThrows(payload, fail) ==
  writeSessionInsertThrows(payload, fail) \/ writeSessionIndexThrows(payload, fail)

\* a body that leaves the index to the backfill
writeSessionBodyNoIndex(d, payload, fail) ==
  IF writeSessionInsertThrows(payload, fail) THEN d
  ELSE [d EXCEPT !.sessions =
          Put(d.sessions, payload.id,
              [projectID |-> payload.projectID, parentID |-> payload.parentID,
               created_at |-> payload.created, updated_at |-> payload.updated,
               data |-> JSONstringify(payload)])]

\* a body that keeps the version of the payload stored before when the new
\* payload has none
writeSessionBodyMerging(d, payload, fail) ==
  LET merged == IF payload.id \in DOMAIN d.sessions /\ payload.version = Undef
                THEN [payload EXCEPT !.version = JSONparse(d.sessions[payload.id].data).version]
                ELSE payload
      inserted == [d EXCEPT !.sessions =
                     Put(d.sessions, payload.id,
                         [projectID |-> payload.projectID, parentID |-> payload.parentID,
                          created_at |-> payload.created, updated_at |-> payload.updated,
                          data |-> JSONstringify(merged)])]
  IN IF writeSessionInsertThrows(payload, fail) THEN d
     ELSE IF writeSessionIndexThrows(payload, fail) THEN inserted
     ELSE writeSessionIndexWithDb(inserted, payload)

writeSessionBody(d, payload, fail) ==
  LET createdAt == payload.created
      updatedAt == payload.updated
      inserted == [d EXCEPT !.sessions =
                     Put(d.sessions, payload.id,
                         [projectID |-> payload.projectID,
                          parentID |-> payload.parentID,
                          created_at |-> createdAt,
                          updated_at |-> updatedAt,
                          data |-> JSONstringify(payload)])]
  IN IF writeSessionInsertThrows(payload, fail) THEN d
     ELSE IF writeSessionIndexThrows(payload, fail) THEN inserted
     ELSE writeSessionIndexWithDb(inserted, payload)

writeSessionDb(d, input, fail) ==
  transaction(d, writeSessionBody(d, input, fail), writeSessionThrows(input, fail))

\* Two DELETE statements, one after the other.
removeSessionThrows(fail) == fail \in {"sessions", "index"}

\* a second DELETE without its WHERE clause
removeSessionBodyClearingIndex(d, id, fail) ==
  LET first == [d EXCEPT !.sessions = Del(d.sessions, id)]
  IN IF fail = "sessions" THEN d
     ELSE IF fail = "index" THEN first
     ELSE [first EXCEPT !.session_index = EmptyTable]

removeSessionBody(d, id, fail) ==
  LET first == [d EXCEPT !.sessions = Del(d.sessions, id)]
  IN IF fail = "sessions" THEN d
     ELSE IF fail = "index" THEN first
     ELSE [first EXCEPT !.session_index = Del(first.session_index, id)]

removeSessionDb(d, id, fail) ==
  autocommit(d, removeSessionBody(d, id, fail), removeSessionThrows(fail))

(***************************************************************************)
(* SQL evaluation.  In ORDER BY, SQLite takes NULL to be smaller than any  *)
(* value; a comparison with NULL in WHERE is not true.                     *)
(***************************************************************************)
SqlGreater(a, b) == a # NullInt /\ (b = NullInt \/ a > b)

\* ORDER BY updated_at DESC, id DESC: a is listed before b
IndexRowBefore(a, b) ==
  \/ SqlGreater(a.updated_at, b.updated_at)
  \/ a.updated_at = b.updated_at /\ a.id > b.id

\* the rows in that order: the row at position i has i - 1 rows before it
OrderIndexRows(rows) ==
  [i \in 1..Cardinality(rows) |->
     CHOOSE r \in rows : Cardinality({o \in rows : IndexRowBefore(o, r)}) = i - 1]

\* LIMIT ?
Limit(list, limit) == SubSeq(list, 1, Min(limit, Len(list)))

\* LIKE, with NOCASE: % matches any run of characters, _ any one character,
\* and letters match without regard to case.
Lower(c) == CASE c = "A" -> "a" [] c = "B" -> "b" [] OTHER -> c

RECURSIVE Like(_, _)
Like(pattern, text) ==
  IF pattern = <<>> THEN text = <<>>
  ELSE IF Head(pattern) = "%"
       THEN \E k \in 0..Len(text) : Like(Tail(pattern), SubSeq(text, k + 1, Len(text)))
  ELSE IF text = <<>> THEN FALSE
  ELSE /\ Head(pattern) = "_" \/ Lower(Head(pattern)) = Lower(Head(text))
       /\ Like(Tail(pattern), Tail(text))

\* A SessionIndexQuery with only the project given.
BaseQuery(projectID) ==
  [projectID |-> projectID, limit |-> NullInt, start |-> NullInt, afterID |-> NullInt,
   search |-> <<>>, directory |-> Undef, includeArchived |-> Undef]

\* The cursor clause of listSessionIndex for the resolved row `after`.
CursorClause(after, r) ==
  LET cursor == Coalesce(Coalesce(after.updated_at, after.created_at), 0)
  IN \/ Coalesce(r.updated_at, 0) < cursor
     \/ Coalesce(r.updated_at, 0) = cursor /\ r.id < after.id

\* a filter that is not applied
DirectoryClauseDropped(input, r) == TRUE

\* if (input.directory) clauses.push("directory = ?")
DirectoryClause(input, r) ==
  input.directory \notin {Undef, ""} => r.directory = input.directory

\* SELECT * FROM session_index WHERE <clauses> ORDER BY updated_at DESC, id DESC
\* [LIMIT ?] on the table `index`, with `after` the resolved cursor row (a list
\* of zero or one row).
SelectSessionIndex(index, after, input) ==
  LET includeArchived == IF input.includeArchived = Undef THEN "true" ELSE input.includeArchived
      rows == {r \in {index[id] : id \in DOMAIN index} :
                 /\ r.projectID = input.projectID
                 /\ input.start # NullInt =>
                      r.updated_at # NullInt /\ r.updated_at >= input.start
                 /\ after # <<>> => CursorClause(after[1], r)
                 /\ input.search # <<>> =>
                      Like(<<"%">> \o input.search \o <<"%">>, r.title)
                 /\ DirectoryClause(input, r)
                 /\ includeArchived # "true" => r.archived_at = NullInt}
  IN CHOOSE list \in {IF input.limit # NullInt THEN Limit(ordered, input.limit) ELSE ordered :
                        ordered \in {OrderIndexRows(matching) : matching \in {rows}}} : TRUE

\* a listing that returns no row when the cursor id has no index row
listSessionIndexLostCursor(d, input) ==
  CHOOSE result \in
    {[db |-> after.db,
      value |-> IF input.afterID \notin {NullInt, EmptyID} /\ after.value = <<>> THEN <<>>
                ELSE SelectSessionIndex(after.db.session_index, after.value, input)] :
       after \in {IF input.afterID \notin {NullInt, EmptyID}
                  THEN readSessionIndexRow(d1, input.afterID)
                  ELSE [db |-> d1, value |-> <<>>] :
                    d1 \in {ensureSessionIndex(d)}}} : TRUE

\* returns the database after the call and the rows returned
listSessionIndex(d, input) ==
  CHOOSE result \in
    {[db |-> after.db,
      value |-> SelectSessionIndex(after.db.session_index, after.value, input)] :
       after \in {IF input.afterID \notin {NullInt, EmptyID}
                  THEN readSessionIndexRow(d1, input.afterID)
                  ELSE [db |-> d1, value |-> <<>>] :
                    d1 \in {ensureSessionIndex(d)}}} : TRUE

\* a listing that reads the index as it is, without the backfill
listSessionIndexChildrenUnseeded(d, parentID) ==
  [db |-> d,
   value |-> CHOOSE list \in
               {OrderIndexRows(rows) :
                  rows \in {{r \in {d.session_index[id] : id \in DOMAIN d.session_index} :
                               r.parentID = parentID}}} : TRUE]

listSessionIndexChildren(d, parentID) ==
  CHOOSE result \in
    {[db |-> d1,
      value |-> CHOOSE list \in
                  {OrderIndexRows(rows) :
                     rows \in {{r \in {d1.session_index[id] : id \in DOMAIN d1.session_index} :
                                  r.parentID = parentID}}} : TRUE] :
       d1 \in {ensureSessionIndex(d)}} : TRUE

(***************************************************************************)
(* The public operations on sessions as actions.  Each one is a whole      *)
(* call: it leaves the database as the call leaves it, records the call in *)
(* `call` and what it returned in `ret`.                                   *)
(***************************************************************************)
msgVars == <<messages, message_parts, session_diff, pager>>

\* the backfill of a model run is cut off after MaxSweeps sweeps
SweepAllowed == sweeps < MaxSweeps

WriteSession(input, fail) ==
  /\ \E d \in {writeSessionDb(Db, input, fail)} : SetDb(d)
  /\ call' = [op |-> "writeSession", id |-> input.id, input |-> input, fail |-> fail,
              err |-> writeSessionThrows(input, fail), seeded |-> Seeded,
              indexed |-> input.id \in DOMAIN session_index]
  /\ ret' = <<>>
  /\ UNCHANGED msgVars

RemoveSession(id, fail) ==
  /\ \E d \in {removeSessionDb(Db, id, fail)} : SetDb(d)
  /\ call' = [op |-> "removeSession", id |-> id, fail |-> fail,
              err |-> removeSessionThrows(fail), seeded |-> Seeded]
  /\ ret' = <<>>
  /\ UNCHANGED msgVars

EnsureSessionIndex ==
  /\ SweepAllowed
  /\ \E d \in {ensureSessionIndex(Db)} : SetDb(d)
  /\ call' = [op |-> "ensureSessionIndex", err |-> FALSE, seeded |-> Seeded]
  /\ ret' = <<>>
  /\ UNCHANGED msgVars

ReadSessionIndexRow(id) ==
  /\ SweepAllowed
  /\ \E r \in {readSessionIndexRow(Db, id)} :
       /\ SetDb(r.db)
       /\ ret' = r.value
  /\ call' = [op |-> "readSessionIndexRow", id |-> id, err |-> FALSE, seeded |-> Seeded]
  /\ UNCHANGED msgVars

ListSessionIndex(input) ==
  /\ SweepAllowed
  /\ \E r \in {listSessionIndex(Db, input)} :
       /\ SetDb(r.db)
       /\ ret' = r.value
  /\ call' = [op |-> "listSessionIndex", input |-> input, err |-> FALSE, seeded |-> Seeded]
  /\ UNCHANGED msgVars

ListSessionIndexChildren(parentID) ==
  /\ SweepAllowed
  /\ \E r \in {listSessionIndexChildren(Db, parentID)} :
       /\ SetDb(r.db)
       /\ ret' = r.value
  /\ call' = [op |-> "listSessionIndexChildren", id |-> parentID, err |-> FALSE,
              seeded |-> Seeded]
  /\ UNCHANGED msgVars

IndexReads == {"readSessionIndexRow", "listSessionIndex", "listSessionIndexChildren"}

(***************************************************************************)
(* Inputs.                                                                 *)
(***************************************************************************)
SessionIDs == 1..MaxSession
ListSessionIDs == 1..MaxListSession
Times == 0..MaxTime

Titled(id, title) == [BaseSession(id) EXCEPT !.title = title, !.directory = "/a"]

\* Payloads of the index-consistency specification: two that derive a row,
\* and three that derive none (no title, a title that is not a string, an
\* empty directory).
PayloadsIndex(id) ==
  { Titled(id, <<"A">>),
    [Titled(id, <<"B">>) EXCEPT !.updated = MaxTime, !.version = "v1"],
    [Titled(id, <<"A">>) EXCEPT !.title = UndefT],
    [Titled(id, <<"A">>) EXCEPT !.title = NotStrT],
    [Titled(id, <<"A">>) EXCEPT !.directory = ""] }

\* A database file written before session_index existed: canonical sessions,
\* no index row, no flag.
LegacySessions ==
  UNION { [ids -> UNION {PayloadsIndex(id) : id \in ids}] : ids \in SUBSET SessionIDs }

InitCommon ==
  /\ session_index = EmptyTable
  /\ meta = EmptyTable
  /\ messages = EmptyTable
  /\ message_parts = EmptyTable
  /\ session_diff = EmptyTable
  /\ call = [op |-> "init", err |-> FALSE, seeded |-> FALSE]
  /\ ret = <<>>
  /\ sweeps = 0
  /\ pager = [phase |-> "idle"]

Init ==
  /\ InitCommon
  /\ \E legacy \in LegacySessions :
       /\ \A id \in DOMAIN legacy : legacy[id].id = id
       /\ sessions = [id \in DOMAIN legacy |->
                        [projectID |-> legacy[id].projectID,
                         parentID |-> legacy[id].parentID,
                         created_at |-> legacy[id].created,
                         updated_at |-> legacy[id].updated,
                         data |-> JSONstringify(legacy[id])]]

\* A database file created by this code.
InitFresh ==
  /\ InitCommon
  /\ sessions = EmptyTable

\* The structured inputs of every specification (payloads, queries, messages,
\* part lists) are named definitions without parameters: TLC evaluates and
\* normalises such a definition once, before its workers start, so no worker
\* sorts the fields of a record another worker is reading.
WholeProject == BaseQuery("p1")

SessionsIndex == UNION {PayloadsIndex(id) : id \in SessionIDs}

Next ==
  \/ \E p \in SessionsIndex : WriteSession(p, NoFail)
  \/ \E id \in SessionIDs : RemoveSession(id, NoFail)
  \/ EnsureSessionIndex
  \/ \E id \in SessionIDs : ReadSessionIndexRow(id)
  \/ ListSessionIndex(WholeProject)
  \/ \E id \in SessionIDs : ListSessionIndexChildren(id)

Spec == Init /\ [][Next]_vars

(***************************************************************************)
(* The same operations with statement failures: the environment may make   *)
(* any one statement of a write throw (an I/O error, a full disk), and the *)
(* insert into sessions throws by itself when projectID is missing.        *)
(***************************************************************************)
FaultSessionIDs == 1..MaxFaultSession

PayloadsFault(id) ==
  { Titled(id, <<"A">>),
    [Titled(id, <<"B">>) EXCEPT !.updated = MaxTime, !.version = "v1"],
    [Titled(id, <<"A">>) EXCEPT !.title = <<>>],
    [Titled(id, <<"A">>) EXCEPT !.directory = Undef],
    [Titled(id, <<"A">>) EXCEPT !.projectID = Undef] }

SessionsFault == UNION {PayloadsFault(id) : id \in FaultSessionIDs}

NextFault ==
  \/ \E p \in SessionsFault :
       \E fail \in {NoFail, "insert", "index"} : WriteSession(p, fail)
  \/ \E id \in FaultSessionIDs :
       \E fail \in {NoFail, "sessions", "index"} : RemoveSession(id, fail)
  \/ EnsureSessionIndex
  \/ \E id \in FaultSessionIDs : ReadSessionIndexRow(id)

SpecFault == InitFresh /\ [][NextFault]_vars

(***************************************************************************)
(* Properties of the session index.                                        *)
(***************************************************************************)
\* the index row derived from the canonical session `id`, as a list
Derived(id) == sessionIndexRow(JSONparse(sessions[id].data))

\* C1: every session_index row belongs to a canonical session and each of
\* its columns is the value derived from that session's stored payload.
C1_IndexAgreesWithCanonical ==
  \A id \in DOMAIN session_index :
    /\ id \in DOMAIN sessions
    /\ Derived(id) = <<session_index[id]>>

\* C2: once the index is seeded, an id has an index row exactly when the
\* canonical session with that id has a non-empty string title and a
\* non-empty string directory.
C2_IndexRowIffTitled ==
  Seeded =>
    \A id \in DOMAIN session_index \cup DOMAIN sessions :
      id \in DOMAIN session_index <=> (id \in DOMAIN sessions /\ Derived(id) # <<>>)

\* C3: a writeSession that throws leaves sessions, session_index and meta as
\* they were; one that returns has stored the canonical row of its payload
\* and, when the payload derives an index row, that row.
C3_WriteSessionAtomic ==
  [][call'.op = "writeSession" =>
       IF call'.err
       THEN sessions' = sessions /\ session_index' = session_index /\ meta' = meta
       ELSE /\ call'.id \in DOMAIN sessions'
            /\ JSONparse(sessions'[call'.id].data) = call'.input
            /\ sessionIndexRow(call'.input) # <<>> =>
                 Get(session_index', call'.id) = sessionIndexRow(call'.input)]_vars

\* a writeSession whose index upsert threw after its insert had replaced the
\* canonical row of another payload: that payload and its index row are back
C3_Witness ==
  /\ call.op = "writeSession"
  /\ call.err
  /\ call.fail = "index"
  /\ call.id \in DOMAIN sessions
  /\ JSONparse(sessions[call.id].data) # call.input
  /\ Get(session_index, call.id) = Derived(call.id)
  /\ Derived(call.id) # <<>>

\* C8: ensureSessionIndex is idempotent (a second call right after the first
\* leaves session_index and meta as the first left them), and a session with
\* title and directory that writeSession stored after the index was seeded is
\* returned by readSessionIndexRow and by listSessionIndex with no sweep.
C8_EnsureIdempotentAndWritesVisible ==
  /\ \A once \in {ensureSessionIndex(Db)} :
       \A twice \in {ensureSessionIndex(once)} :
         twice.session_index = once.session_index /\ twice.meta = once.meta
  /\ (call.op = "writeSession" /\ ~call.err /\ call.seeded
        /\ sessionIndexRow(call.input) # <<>>) =>
       /\ \A r \in {readSessionIndexRow(Db, call.id)} :
            r.value = sessionIndexRow(call.input) /\ r.db = Db
       /\ \A r \in {listSessionIndex(Db, BaseQuery(call.input.projectID))} :
            /\ \E i \in 1..Len(r.value) : <<r.value[i]>> = sessionIndexRow(call.input)
            /\ r.db = Db

\* a session with title and directory written after the one sweep, next to
\* a session the sweep indexed
C8_Witness ==
  /\ call.op = "writeSession"
  /\ ~call.err
  /\ call.seeded
  /\ sessionIndexRow(call.input) # <<>>
  /\ sweeps = 1
  /\ Cardinality(DOMAIN session_index) = 2

\* C9: once the flag is set it stays set, the canonical sessions are not
\* enumerated again, and no ensureSessionIndex or index read changes
\* session_index or meta.
C9_BackfillOnce ==
  [][Seeded =>
       /\ Seeded'
       /\ sweeps' = sweeps
       /\ call'.op \in IndexReads \cup {"ensureSessionIndex"} =>
            session_index' = session_index /\ meta' = meta]_vars

\* an index read or ensureSessionIndex that started seeded, with canonical
\* sessions stored that have no index row
C9_Witness ==
  /\ call.op \in IndexReads \cup {"ensureSessionIndex"}
  /\ call.seeded
  /\ sweeps = 1
  /\ DOMAIN sessions \ DOMAIN session_index # {}

\* what an index read returns from the table `index`
IndexReadResult(index, c) ==
  CASE c.op = "readSessionIndexRow" -> Get(index, c.id)
    [] c.op = "listSessionIndex" ->
         SelectSessionIndex(index,
                            IF c.input.afterID # NullInt THEN Get(index, c.input.afterID)
                            ELSE <<>>,
                            c.input)
    [] c.op = "listSessionIndexChildren" ->
         OrderIndexRows({r \in {index[id] : id \in DOMAIN index} : r.parentID = c.id})

\* C10: the first index read or ensureSessionIndex of an unseeded store
\* returns without an error, after one sweep, with the flag set and with an
\* index row equal to the derived row for every canonical session that has
\* title and directory; what the read returns is read from that index.
C10_FirstReadSeeds ==
  (call.op \in IndexReads \cup {"ensureSessionIndex"} /\ ~call.seeded) =>
    /\ ~call.err
    /\ Seeded
    /\ sweeps = 1
    /\ \A id \in DOMAIN sessions :
         Derived(id) # <<>> => Get(session_index, id) = Derived(id)
    /\ call.op \in IndexReads => ret = IndexReadResult(session_index, call)

\* a first index read of a store that holds a session with title and
\* directory and one without: the read returns the row of the first
C10_Witness ==
  /\ call.op \in IndexReads
  /\ ~call.seeded
  /\ ret # <<>>
  /\ \E id \in DOMAIN sessions : Derived(id) = <<>>

(***************************************************************************)
(* Listing the index: cursors and filters.                                 *)
(***************************************************************************)
\* Payloads of the cursor specification: one project and directory, every
\* combination of time.updated and time.created being absent or set.
PayloadsCursor(id) ==
  { [Titled(id, <<"A">>) EXCEPT !.updated = u, !.created = c] :
      u \in Times \cup {NullInt}, c \in {NullInt, MaxTime} }

SessionsCursor == UNION {PayloadsCursor(id) : id \in ListSessionIDs}

QueriesCursor ==
  { [BaseQuery("p1") EXCEPT !.afterID = after] : after \in ListSessionIDs \cup {NullInt} }

NextCursor ==
  \/ \E p \in SessionsCursor : WriteSession(p, NoFail)
  \/ \E id \in ListSessionIDs : RemoveSession(id, NoFail)
  \/ \E input \in QueriesCursor : ListSessionIndex(input)

SpecCursor == InitFresh /\ [][NextCursor]_vars

\* Payloads of the filter specification: two projects, two directories.
PayloadsFilter(id) ==
  { [Titled(id, <<"A">>) EXCEPT !.projectID = pdu[1], !.directory = pdu[2], !.updated = pdu[3]] :
      pdu \in {<<"p1", "/a", 0>>, <<"p1", "/a", MaxTime>>, <<"p1", "/b", 0>>,
               <<"p2", "/a", 0>>} }

SessionsFilter == UNION {PayloadsFilter(id) : id \in ListSessionIDs}

QueriesFilter ==
  { [BaseQuery(project) EXCEPT !.directory = dir] :
      project \in {"p1", "p2"}, dir \in {Undef, "", "/a", "/b"} }

NextFilter ==
  \/ \E p \in SessionsFilter : WriteSession(p, NoFail)
  \/ \E id \in ListSessionIDs : RemoveSession(id, NoFail)
  \/ \E input \in QueriesFilter : ListSessionIndex(input)

SpecFilter == InitFresh /\ [][NextFilter]_vars

Range(list) == {list[i] : i \in 1..Len(list)}

\* C6: with a cursor that resolves to the index row c, listSessionIndex
\* returns the rows of the same query without the cursor that are listed
\* strictly after c in the (updated_at DESC, id DESC) order, all of them and
\* in that order.
C6_CursorStrictlyAfter ==
  (/\ call.op = "listSessionIndex"
   /\ call.input.afterID \in DOMAIN session_index) =>
    \A c \in {session_index[call.input.afterID]} :
      \A full \in {SelectSessionIndex(session_index, <<>>,
                                      [call.input EXCEPT !.afterID = NullInt])} :
        ret = SelectSeq(full, LAMBDA r : IndexRowBefore(c, r))

\* C7: listSessionIndex({projectID, directory}) with a non-empty string as
\* directory returns the index rows of the project whose directory is the
\* filter, each once, by updated_at descending and then id descending.
C7_DirectoryFilter ==
  (/\ call.op = "listSessionIndex"
   /\ call.input.directory \notin {Undef, ""}) =>
    /\ Range(ret) = {r \in {session_index[id] : id \in DOMAIN session_index} :
                       /\ r.projectID = call.input.projectID
                       /\ r.directory = call.input.directory}
    /\ \A i, j \in 1..Len(ret) :
         i < j => \/ ret[i].updated_at > ret[j].updated_at
                  \/ ret[i].updated_at = ret[j].updated_at /\ ret[i].id > ret[j].id

\* a listing by directory that returns two rows with the same updated_at and
\* leaves out a row of another directory
C7_Witness ==
  /\ call.op = "listSessionIndex"
  /\ call.input.directory = "/a"
  /\ Len(ret) = 2
  /\ ret[1].updated_at = ret[2].updated_at
  /\ \E id \in DOMAIN session_index : session_index[id].directory = "/b"

(***************************************************************************)
(* Messages.  A MessageRecord is [info, parts]: info is a list of zero or  *)
(* one info object (zero when the property is missing) and parts stands    *)
(* for the properties of the record beside info.                           *)
(***************************************************************************)
MessageIDs == 1..MaxMessage
PageMessageIDs == 1..MaxPageMessage

MsgDb == [messages |-> messages, message_parts |-> message_parts]

SetMsgDb(d) ==
  /\ messages' = d.messages
  /\ message_parts' = d.message_parts

Info(id, sessionID) == [id |-> id, sessionID |-> sessionID, created |-> NullInt]

\* a write that on conflict replaces the document and leaves the row's
\* sessionID as it was
writeMessageKeepingSession(d, input) ==
  IF input.info = <<>> THEN d
  ELSE LET info == input.info[1]
           created == info.created
           sessionID == IF info.id \in DOMAIN d.messages
                        THEN d.messages[info.id].sessionID ELSE info.sessionID
       IN [d EXCEPT !.messages =
             Put(d.messages, info.id,
                 [sessionID |-> sessionID,
                  created_at |-> created,
                  data |-> JSONstringify([info |-> info])])]

writeMessage(d, input) ==
  IF input.info = <<>> THEN d
  ELSE LET info == input.info[1]
           created == info.created
       IN [d EXCEPT !.messages =
             Put(d.messages, info.id,
                 [sessionID |-> info.sessionID,
                  created_at |-> created,
                  data |-> JSONstringify([info |-> info])])]

\* a removal that leaves the parts
removeMessagePartsKept(d, sessionID, messageID) == d

removeMessageParts(d, sessionID, messageID) ==
  [d EXCEPT !.message_parts =
     [k \in {x \in DOMAIN d.message_parts : ~(x[1] = sessionID /\ x[2] = messageID)} |->
        d.message_parts[k]]]

\* DELETE FROM messages WHERE sessionID = ? AND id = ?, then removeMessageParts
removeMessageThrows(fail) == fail \in {"messages", "parts"}

removeMessageBody(d, sessionID, messageID, fail) ==
  LET first == IF messageID \in DOMAIN d.messages
                  /\ d.messages[messageID].sessionID = sessionID
               THEN [d EXCEPT !.messages = Del(d.messages, messageID)]
               ELSE d
  IN IF fail = "messages" THEN d
     ELSE IF fail = "parts" THEN first
     ELSE removeMessageParts(first, sessionID, messageID)

removeMessage(d, sessionID, messageID, fail) ==
  autocommit(d, removeMessageBody(d, sessionID, messageID, fail), removeMessageThrows(fail))

\* the ids of the rows of messages WHERE sessionID = ?
MessageIdsOf(msgs, sessionID) == {id \in DOMAIN msgs : msgs[id].sessionID = sessionID}

\* ORDER BY id DESC: the id at position i has i - 1 greater ids before it
OrderIdsDesc(ids) ==
  [i \in 1..Cardinality(ids) |-> CHOOSE x \in ids : Cardinality({y \in ids : y > x}) = i - 1]

\* ORDER BY id ASC
OrderIdsAsc(ids) ==
  [i \in 1..Cardinality(ids) |-> CHOOSE x \in ids : Cardinality({y \in ids : y < x}) = i - 1]

\* a cursor that lets the row of the cursor through
PageAfterLimitInclusive(msgs, sessionID, afterID, limit) ==
  Limit(OrderIdsDesc({id \in MessageIdsOf(msgs, sessionID) : id <= afterID}), limit)

\* a page that is cut from the top of the list, whatever the cursor
PageAfterLimitFromTop(msgs, sessionID, afterID, limit) ==
  Limit(OrderIdsDesc(MessageIdsOf(msgs, sessionID)), limit)

\* WHERE sessionID = ? AND id < ? ORDER BY id DESC LIMIT ?
PageAfterLimit(msgs, sessionID, afterID, limit) ==
  Limit(OrderIdsDesc({id \in MessageIdsOf(msgs, sessionID) : id < afterID}), limit)

\* WHERE sessionID = ? AND id < ? ORDER BY id DESC
PageAfter(msgs, sessionID, afterID) ==
  OrderIdsDesc({id \in MessageIdsOf(msgs, sessionID) : id < afterID})

\* WHERE sessionID = ? ORDER BY id DESC LIMIT ?
PageLimit(msgs, sessionID, limit) ==
  Limit(OrderIdsDesc(MessageIdsOf(msgs, sessionID)), limit)

\* WHERE sessionID = ? ORDER BY id DESC
PageAll(msgs, sessionID) == OrderIdsDesc(MessageIdsOf(msgs, sessionID))

\* if (afterID): neither undefined nor the empty string
CursorGiven(afterID) == afterID \notin {NullInt, EmptyID}

\* input is a MessageListInput: afterID and limit are NullInt when undefined
listMessagesPage(msgs, input) ==
  LET limit == input.limit
      afterID == input.afterID
  IN IF CursorGiven(afterID) /\ limit # NullInt
       THEN PageAfterLimit(msgs, input.sessionID, afterID, limit)
     ELSE IF CursorGiven(afterID) THEN PageAfter(msgs, input.sessionID, afterID)
     ELSE IF limit # NullInt THEN PageLimit(msgs, input.sessionID, limit)
     ELSE PageAll(msgs, input.sessionID)

sessVars == <<sessions, session_index, meta, session_diff, sweeps>>

WriteMessage(input) ==
  /\ \E d \in {writeMessage(MsgDb, input)} : SetMsgDb(d)
  /\ call' = [op |-> "writeMessage", input |-> input, err |-> FALSE, seeded |-> Seeded,
              replaced |-> input.info # <<>> /\ input.info[1].id \in DOMAIN messages]
  /\ ret' = <<>>
  /\ UNCHANGED <<sessVars, pager>>

RemoveMessage(sessionID, messageID, fail) ==
  /\ \E d \in {removeMessage(MsgDb, sessionID, messageID, fail)} : SetMsgDb(d)
  /\ call' = [op |-> "removeMessage", sessionID |-> sessionID, id |-> messageID,
              fail |-> fail, err |-> removeMessageThrows(fail), seeded |-> Seeded]
  /\ ret' = <<>>
  /\ UNCHANGED <<sessVars, pager>>

ListMessagesPage(input) ==
  /\ ret' = listMessagesPage(messages, input)
  /\ call' = [op |-> "listMessagesPage", input |-> input, err |-> FALSE, seeded |-> Seeded]
  /\ UNCHANGED <<tables, sweeps, pager>>

MessageInputs(ids) ==
  { [info |-> <<Info(id, sid)>>, parts |-> <<>>] : id \in ids, sid \in SessionIDs }
    \cup { [info |-> <<>>, parts |-> <<>>] }

PageInputs ==
  [sessionID : SessionIDs,
   limit : {NullInt} \cup 0..MaxLimit,
   afterID : {NullInt, EmptyID} \cup 1..(MaxMessage + 1)]

MessagesWritten == MessageInputs(MessageIDs)

NextMsg ==
  \/ \E m \in MessagesWritten : WriteMessage(m)
  \/ \E sid \in SessionIDs : \E id \in MessageIDs : RemoveMessage(sid, id, NoFail)
  \/ \E input \in PageInputs : ListMessagesPage(input)

SpecMsg == InitFresh /\ [][NextMsg]_vars

\* C5: whatever the combination of afterID and limit, listMessagesPage
\* returns the session's ids in descending order, cut to those strictly
\* less than afterID when a cursor is given and then to the first `limit`
\* when a limit is given.  A cursor is given when afterID is a non-empty
\* string.
C5_PageIsSliceOfDescendingList ==
  call.op = "listMessagesPage" =>
    \A full \in {OrderIdsDesc(MessageIdsOf(messages, call.input.sessionID))} :
      \A windowed \in {IF call.input.afterID \notin {NullInt, EmptyID}
                       THEN SelectSeq(full, LAMBDA id : id < call.input.afterID)
                       ELSE full} :
        ret = IF call.input.limit # NullInt
              THEN SubSeq(windowed, 1, Min(call.input.limit, Len(windowed)))
              ELSE windowed

\* a page with cursor and limit that leaves out ids at and above the cursor
\* and ids beyond the limit
C5_Witness ==
  /\ call.op = "listMessagesPage"
  /\ call.input.afterID = 3
  /\ call.input.limit = 1
  /\ ret = <<2>>
  /\ MessageIdsOf(messages, call.input.sessionID) = {1, 2, 3}

(***************************************************************************)
(* A caller that pages through the messages of one session, as the test    *)
(* "paginates newest-first and supports cursors" does: a first             *)
(* listMessagesPage with a limit, then one with afterID set to the last id *)
(* of the page before, until a page comes back with fewer ids than the     *)
(* limit.  pager.acc is the concatenation of the pages fetched so far and  *)
(* pager.snapshot the ids the session held when the first page was fetched.*)
(***************************************************************************)
PageFirst(sessionID, k) ==
  /\ pager.phase = "idle"
  /\ \E input \in {[sessionID |-> sessionID, limit |-> k, afterID |-> NullInt]} :
       \E page \in {listMessagesPage(messages, input)} :
         /\ pager' = [phase |-> IF Len(page) < k THEN "done" ELSE "paging",
                      sessionID |-> sessionID, k |-> k,
                      first |-> page, acc |-> page, pages |-> 1,
                      snapshot |-> MessageIdsOf(messages, sessionID)]
         /\ ret' = page
         /\ call' = [op |-> "listMessagesPage", input |-> input, err |-> FALSE,
                     seeded |-> Seeded]
  /\ UNCHANGED <<tables, sweeps>>

PageNext ==
  /\ pager.phase = "paging"
  /\ \E input \in {[sessionID |-> pager.sessionID, limit |-> pager.k,
                    afterID |-> pager.acc[Len(pager.acc)]]} :
       \E page \in {listMessagesPage(messages, input)} :
         /\ pager' = [pager EXCEPT !.phase = IF Len(page) < pager.k THEN "done" ELSE "paging",
                                   !.acc = pager.acc \o page,
                                   !.pages = pager.pages + 1]
         /\ ret' = page
         /\ call' = [op |-> "listMessagesPage", input |-> input, err |-> FALSE,
                     seeded |-> Seeded]
  /\ UNCHANGED <<tables, sweeps>>

\* the messages are written first; none is written during the paging run
WriteBeforePaging(m) ==
  /\ pager.phase = "idle"
  /\ WriteMessage(m)

MessagesPaged == MessageInputs(PageMessageIDs)

NextPage ==
  \/ \E m \in MessagesPaged : WriteBeforePaging(m)
  \/ \E sid \in SessionIDs : \E k \in 1..MaxLimit : PageFirst(sid, k)
  \/ PageNext

SpecPage == InitFresh /\ [][NextPage]_vars

\* C4: with a limit k >= 1, the first page is the k greatest ids of the
\* session in descending order, every further page is the next k, the pages
\* put together are descending (no id twice), leave out no id above the last
\* one returned, and when paging has ended on a short or empty page they are
\* all the ids of the session.
C4_PagesCoverDescendingList ==
  pager.phase # "idle" =>
    \A ids \in {MessageIdsOf(messages, pager.sessionID)} :
      /\ Len(pager.first) = Min(pager.k, Cardinality(ids))
      /\ pager.first = SubSeq(pager.acc, 1, Len(pager.first))
      /\ \A i, j \in 1..Len(pager.acc) : i < j => pager.acc[i] > pager.acc[j]
      /\ Range(pager.acc) \subseteq ids
      /\ \A x \in Range(pager.acc) : \A y \in ids \ Range(pager.acc) : x > y
      /\ Len(pager.acc) = Min(pager.k * pager.pages, Cardinality(ids))
      /\ pager.phase = "done" <=> Len(pager.acc) < pager.k * pager.pages
      /\ pager.phase = "done" => Range(pager.acc) = ids

\* the four messages of one session paged by two: two full pages and an
\* empty one
C4_Witness ==
  /\ pager.phase = "done"
  /\ pager.k = 2
  /\ pager.pages = 3
  /\ pager.acc = <<4, 3, 2, 1>>
  /\ ret = <<>>

(***************************************************************************)
(* The backfill when a sweep throws.  The loop of ensureSessionIndex runs  *)
(* outside any transaction: JSON.parse throws on a stored document that is *)
(* not JSON, and the environment may make one upsert throw.  The rows are  *)
(* selected without ORDER BY, so the rows upserted before the throw are    *)
(* any set of rows that neither are corrupt nor hold the failing upsert.   *)
(***************************************************************************)
CorruptData == [corrupt |-> TRUE]

JSONparseThrows(s) == "json" \notin DOMAIN s

CorruptRow ==
  [projectID |-> "p1", parentID |-> NullInt, created_at |-> NullInt,
   updated_at |-> NullInt, data |-> CorruptData]

CorruptIds(d) == {id \in DOMAIN d.sessions : JSONparseThrows(d.sessions[id].data)}

\* `fail` is a list of zero or one session id: the row whose upsert throws
UpsertFails(d, fail) ==
  \E id \in DOMAIN d.sessions \ CorruptIds(d) :
    /\ fail = <<id>>
    /\ sessionIndexRow(JSONparse(d.sessions[id].data)) # <<>>

ensureSessionIndexThrows(d, fail) ==
  /\ ~Truthy(metaGet(d.meta, SeededKey))
  /\ CorruptIds(d) # {} \/ UpsertFails(d, fail)

\* the rows a sweep can have gone through before it throws
SweptBeforeThrow(d, fail) ==
  SUBSET {id \in DOMAIN d.sessions \ CorruptIds(d) : fail # <<id>>}

\* an interrupted sweep that has set the flag before the loop
ensureSessionIndexInterruptedFlagFirst(d, done) ==
  LET swept == SweepRows([d EXCEPT !.sweeps = d.sweeps + 1], done)
  IN [swept EXCEPT !.meta = metaSet(swept.meta, SeededKey, "1")]

\* the loop threw after the rows `done`: their upserts stay, metaSet is not
\* reached
ensureSessionIndexInterrupted(d, done) ==
  autocommit(d, SweepRows([d EXCEPT !.sweeps = d.sweeps + 1], done), TRUE)

EnsureSessionIndexSweep(fail, done) ==
  /\ SweepAllowed
  /\ IF ensureSessionIndexThrows(Db, fail)
       THEN /\ done \in SweptBeforeThrow(Db, fail)
            /\ \E d \in {ensureSessionIndexInterrupted(Db, done)} : SetDb(d)
       ELSE /\ done = {}
            /\ \E d \in {ensureSessionIndex(Db)} : SetDb(d)
  /\ call' = [op |-> "ensureSessionIndex", err |-> ensureSessionIndexThrows(Db, fail),
              seeded |-> Seeded, fail |-> fail, done |-> done]
  /\ ret' = <<>>
  /\ UNCHANGED msgVars

PayloadsBackfill(id) ==
  { Titled(id, <<"A">>),
    [Titled(id, <<"B">>) EXCEPT !.updated = MaxTime, !.version = "v1"],
    [Titled(id, <<"A">>) EXCEPT !.title = UndefT] }

LegacyRow(p) ==
  [projectID |-> p.projectID, parentID |-> p.parentID, created_at |-> p.created,
   updated_at |-> p.updated, data |-> JSONstringify(p)]

\* A database whose sessions table was filled before the index existed; a
\* stored document may be damaged.
InitBackfill ==
  /\ InitCommon
  /\ \E ids \in SUBSET SessionIDs :
       \E legacy \in [ids -> {CorruptRow} \cup
                             UNION {{LegacyRow(p) : p \in PayloadsBackfill(id)} :
                                    id \in SessionIDs}] :
         /\ \A id \in ids : IF JSONparseThrows(legacy[id].data) THEN TRUE
                            ELSE JSONparse(legacy[id].data).id = id
         /\ sessions = legacy

SessionsBackfill == UNION {PayloadsBackfill(id) : id \in SessionIDs}

SweepFails == {<<>>} \cup {<<id>> : id \in SessionIDs}
SweepsDone == {done \in SUBSET SessionIDs : TRUE}

NextBackfill ==
  \/ \E p \in SessionsBackfill : WriteSession(p, NoFail)
  \/ \E id \in SessionIDs : RemoveSession(id, NoFail)
  \/ \E fail \in SweepFails : \E done \in SweepsDone : EnsureSessionIndexSweep(fail, done)

SpecBackfill == InitBackfill /\ [][NextBackfill]_vars

\* what removes the cause of a throw: each damaged row is removed or
\* written again; how[id] says which
RECURSIVE Repaired(_, _, _)
Repaired(d, ids, how) ==
  IF ids = {} THEN d
  ELSE LET id == CHOOSE x \in ids : TRUE
           d1 == IF how[id] = "remove" THEN removeSessionDb(d, id, NoFail)
                 ELSE writeSessionDb(d, Titled(id, <<"A">>), NoFail)
       IN Repaired(d1, ids \ {id}, how)

\* C11: a sweep that throws leaves the flag unset, and once the damaged
\* rows are removed or written again, a sweep over the database it left
\* gives the index that a sweep gives over the database it found; a sweep
\* that sets the flag has met no damaged row and no failing upsert, and
\* every canonical session that derives a row has that row.
C11_InterruptedSweepRetries ==
  [][(call'.op = "ensureSessionIndex" /\ ~call'.seeded) =>
       IF call'.err
       THEN /\ meta' = meta
            /\ ~Seeded'
            /\ sessions' = sessions
            /\ \A how \in [CorruptIds(Db) -> {"remove", "write"}] :
                 ensureSessionIndex(
                   Repaired([sessions |-> sessions', session_index |-> session_index',
                             meta |-> meta', sweeps |-> 0],
                            CorruptIds(Db), how)).session_index
                 = ensureSessionIndex(Repaired([Db EXCEPT !.sweeps = 0],
                                               CorruptIds(Db), how)).session_index
       ELSE /\ Seeded'
            /\ CorruptIds(Db) = {}
            /\ ~UpsertFails(Db, call'.fail)
            /\ \A id \in DOMAIN sessions :
                 sessionIndexRow(JSONparse(sessions[id].data)) # <<>> =>
                   Get(session_index', id) = sessionIndexRow(JSONparse(sessions[id].data))]_vars

\* a sweep that set the flag, after a sweep that threw part-way and left
\* index rows behind
C11_Witness ==
  /\ call.op = "ensureSessionIndex"
  /\ ~call.err
  /\ ~call.seeded
  /\ sweeps = 2
  /\ Seeded
  /\ Cardinality(DOMAIN session_index) = 2

(***************************************************************************)
(* Parts.  message_parts has the primary key (sessionID, messageID, id): a *)
(* key of the table is the triple.  A PartRecord is [id, v], v standing    *)
(* for its other properties; a part without id has id NullInt, which the   *)
(* NOT NULL constraint on message_parts.id rejects.                        *)
(***************************************************************************)
PartIDs == 1..MaxPart

Part(id, v) == [id |-> id, v |-> v]

PartKeysOf(parts, sessionID, messageID) ==
  {k \in DOMAIN parts : k[1] = sessionID /\ k[2] = messageID}

\* a read that returns the parts by descending id
readPartsDescending(d, sessionID, messageID) ==
  LET ids == {k[3] : k \in PartKeysOf(d.message_parts, sessionID, messageID)}
      order == OrderIdsDesc(ids)
  IN [i \in 1..Len(order) |->
        JSONparse(d.message_parts[<<sessionID, messageID, order[i]>>].data)]

\* SELECT data FROM message_parts WHERE sessionID = ? AND messageID = ?
\* ORDER BY id ASC, each row parsed
readParts(d, sessionID, messageID) ==
  LET ids == {k[3] : k \in PartKeysOf(d.message_parts, sessionID, messageID)}
      order == OrderIdsAsc(ids)
  IN [i \in 1..Len(order) |->
        JSONparse(d.message_parts[<<sessionID, messageID, order[i]>>].data)]

\* `fail` is the position of the statement the environment makes throw, 0
\* for none.  The position at which the loop of writeParts throws, 0 when
\* it does not: the first insert that fails or has no part id.
writePartsThrowsAt(parts, fail) ==
  LET bad == {i \in 1..Len(parts) : i = fail \/ parts[i].id = NullInt}
  IN IF bad = {} THEN 0 ELSE CHOOSE i \in bad : \A j \in bad : i <= j

writePartsThrows(parts, fail) == writePartsThrowsAt(parts, fail) # 0

\* the loop of INSERT OR REPLACE statements, up to the one that throws: for
\* each key the last part written under it stays
writePartsBody(d, sessionID, messageID, parts, fail) ==
  LET at == writePartsThrowsAt(parts, fail)
      upto == IF at = 0 THEN Len(parts) ELSE at - 1
      written == {parts[i].id : i \in 1..upto}
      last(id) == CHOOSE i \in 1..upto :
                    /\ parts[i].id = id
                    /\ \A j \in 1..upto : parts[j].id = id => j <= i
  IN [d EXCEPT !.message_parts =
        [k \in DOMAIN d.message_parts \cup {<<sessionID, messageID, id>> : id \in written} |->
           IF k[1] = sessionID /\ k[2] = messageID /\ k[3] \in written
           THEN [data |-> JSONstringify(parts[last(k[3])])]
           ELSE d.message_parts[k]]]

writeParts(d, sessionID, messageID, parts, fail) ==
  IF Len(parts) = 0 THEN d
  ELSE transaction(d, writePartsBody(d, sessionID, messageID, parts, fail),
                   writePartsThrows(parts, fail))

\* the loop of DELETE statements, up to the one the environment makes throw
removePartsThrows(partIDs, fail) == fail \in 1..Len(partIDs)

removePartsBody(d, sessionID, messageID, partIDs, fail) ==
  LET upto == IF removePartsThrows(partIDs, fail) THEN fail - 1 ELSE Len(partIDs)
      gone == {<<sessionID, messageID, partIDs[i]>> : i \in 1..upto}
  IN [d EXCEPT !.message_parts =
        [k \in DOMAIN d.message_parts \ gone |-> d.message_parts[k]]]

removeParts(d, sessionID, messageID, partIDs, fail) ==
  IF Len(partIDs) = 0 THEN d
  ELSE transaction(d, removePartsBody(d, sessionID, messageID, partIDs, fail),
                   removePartsThrows(partIDs, fail))

\* DELETE FROM messages WHERE sessionID = ?, then DELETE FROM message_parts
\* WHERE sessionID = ?
removeMessagesBody(d, sessionID, fail) ==
  LET first == [d EXCEPT !.messages =
                  [id \in DOMAIN d.messages \ MessageIdsOf(d.messages, sessionID) |->
                     d.messages[id]]]
  IN IF fail = "messages" THEN d
     ELSE IF fail = "parts" THEN first
     ELSE [first EXCEPT !.message_parts =
             [k \in {x \in DOMAIN first.message_parts : x[1] # sessionID} |->
                first.message_parts[k]]]

removeMessages(d, sessionID, fail) ==
  autocommit(d, removeMessagesBody(d, sessionID, fail), removeMessageThrows(fail))

WriteParts(sessionID, messageID, parts, fail) ==
  /\ \E d \in {writeParts(MsgDb, sessionID, messageID, parts, fail)} : SetMsgDb(d)
  /\ call' = [op |-> "writeParts", sessionID |-> sessionID, id |-> messageID,
              parts |-> parts, fail |-> fail,
              err |-> Len(parts) # 0 /\ writePartsThrows(parts, fail), seeded |-> Seeded]
  /\ ret' = <<>>
  /\ UNCHANGED <<sessVars, pager>>

RemoveParts(sessionID, messageID, partIDs, fail) ==
  /\ \E d \in {removeParts(MsgDb, sessionID, messageID, partIDs, fail)} : SetMsgDb(d)
  /\ call' = [op |-> "removeParts", sessionID |-> sessionID, id |-> messageID,
              partIDs |-> partIDs, fail |-> fail,
              err |-> Len(partIDs) # 0 /\ removePartsThrows(partIDs, fail),
              seeded |-> Seeded]
  /\ ret' = <<>>
  /\ UNCHANGED <<sessVars, pager>>

RemoveMessages(sessionID, fail) ==
  /\ \E d \in {removeMessages(MsgDb, sessionID, fail)} : SetMsgDb(d)
  /\ call' = [op |-> "removeMessages", sessionID |-> sessionID, fail |-> fail,
              err |-> removeMessageThrows(fail), seeded |-> Seeded]
  /\ ret' = <<>>
  /\ UNCHANGED <<sessVars, pager>>

ReadParts(sessionID, messageID) ==
  /\ ret' = readParts(MsgDb, sessionID, messageID)
  /\ call' = [op |-> "readParts", sessionID |-> sessionID, id |-> messageID,
              err |-> FALSE, seeded |-> Seeded]
  /\ UNCHANGED <<tables, sweeps, pager>>

(***************************************************************************)
(* Removal.  Sessions and messages are written and removed; the            *)
(* environment may make either statement of a removal throw.               *)
(***************************************************************************)
RemovalMessageIDs == {1, MaxMessage}

RemovalMessageInputs ==
  { [info |-> <<Info(id, sid)>>, parts |-> <<>>] :
      id \in RemovalMessageIDs, sid \in FaultSessionIDs }

PayloadsRemoval(id) ==
  { Titled(id, <<"A">>), [Titled(id, <<"A">>) EXCEPT !.title = UndefT] }

RemovalFails == {NoFail, "messages", "parts"}

SessionsRemoval == UNION {PayloadsRemoval(id) : id \in FaultSessionIDs}

PartsRemoval == <<Part(1, "x")>>

NextRemoval ==
  \/ \E p \in SessionsRemoval : WriteSession(p, NoFail)
  \/ \E id \in FaultSessionIDs :
       \E fail \in {NoFail, "sessions", "index"} : RemoveSession(id, fail)
  \/ \E m \in RemovalMessageInputs : WriteMessage(m)
  \/ \E sid \in FaultSessionIDs : \E mid \in RemovalMessageIDs :
       WriteParts(sid, mid, PartsRemoval, 0)
  \/ \E sid \in FaultSessionIDs : \E mid \in RemovalMessageIDs :
       \E fail \in RemovalFails : RemoveMessage(sid, mid, fail)
  \/ \E sid \in FaultSessionIDs : \E fail \in RemovalFails : RemoveMessages(sid, fail)
  \/ \E sid \in FaultSessionIDs : \E mid \in RemovalMessageIDs :
       \E fail \in {0, 1} : RemoveParts(sid, mid, <<1>>, fail)

SpecRemoval == InitFresh /\ [][NextRemoval]_vars

\* C12: no removal, whether it returns or throws, takes a message row away
\* and leaves parts of that message, or takes a sessions row away and
\* leaves the session_index row of that id.
C12_RemovalsAtomic ==
  [][/\ \A id \in DOMAIN messages \ DOMAIN messages' :
          PartKeysOf(message_parts', messages[id].sessionID, id) = {}
     /\ \A id \in DOMAIN sessions \ DOMAIN sessions' : id \notin DOMAIN session_index']_vars

\* C17: when removeMessage(S, M) has returned, messages holds no row with
\* id M in session S and message_parts no row of (S, M); when
\* removeSession(id) has returned, neither sessions nor session_index holds
\* a row with that id.
C17_RemovedEverywhere ==
  /\ (call.op = "removeMessage" /\ ~call.err) =>
       /\ call.id \notin MessageIdsOf(messages, call.sessionID)
       /\ PartKeysOf(message_parts, call.sessionID, call.id) = {}
  /\ (call.op = "removeSession" /\ ~call.err) =>
       /\ call.id \notin DOMAIN sessions
       /\ call.id \notin DOMAIN session_index

\* a removeMessage that returned while the other message and its part are
\* stored, in a database where a session is stored and indexed
C17_Witness ==
  /\ call.op = "removeMessage"
  /\ ~call.err
  /\ \E other \in DOMAIN messages :
       /\ other # call.id
       /\ PartKeysOf(message_parts, messages[other].sessionID, other) # {}
  /\ DOMAIN session_index # {}

(***************************************************************************)
(* Reading a message back.                                                 *)
(***************************************************************************)
\* SELECT data FROM messages WHERE sessionID = ? AND id = ?, parsed: a list
\* of zero or one document
readMessage(d, sessionID, messageID) ==
  IF messageID \in MessageIdsOf(d.messages, sessionID)
  THEN <<JSONparse(d.messages[messageID].data)>>
  ELSE <<>>

ReadMessage(sessionID, messageID) ==
  /\ ret' = readMessage(MsgDb, sessionID, messageID)
  /\ call' = [op |-> "readMessage", sessionID |-> sessionID, id |-> messageID,
              err |-> FALSE, seeded |-> Seeded]
  /\ UNCHANGED <<tables, sweeps, pager>>

\* message records with the property info alone, and with the property
\* `parts: []` beside it
MessageRecords ==
  { [info |-> <<Info(id, sid)>>] : id \in MessageIDs, sid \in SessionIDs }
    \cup MessageInputs(MessageIDs)

\* the record as the value the caller holds
MessageDocument(m) ==
  IF "parts" \in DOMAIN m THEN [info |-> m.info[1], parts |-> m.parts]
  ELSE [info |-> m.info[1]]

NextMsgRead ==
  \/ \E m \in MessageRecords : WriteMessage(m)
  \/ \E sid \in SessionIDs : \E id \in MessageIDs : RemoveMessage(sid, id, NoFail)
  \/ \E sid \in SessionIDs : \E id \in MessageIDs : ReadMessage(sid, id)

SpecMsgRead == InitFresh /\ [][NextMsgRead]_vars

\* C13: after writeMessage(m), readMessage(m.info.sessionID, m.info.id)
\* returns a value equal to m, the properties of m beside info included.
C13_MessageRoundTrip ==
  (call.op = "writeMessage" /\ call.input.info # <<>>) =>
    readMessage(MsgDb, call.input.info[1].sessionID, call.input.info[1].id)
      = <<MessageDocument(call.input)>>

(***************************************************************************)
(* Reading a session back.                                                 *)
(***************************************************************************)
ReadSession(id) ==
  /\ ret' = readSession(Db, id)
  /\ call' = [op |-> "readSession", id |-> id, err |-> FALSE, seeded |-> Seeded]
  /\ UNCHANGED <<tables, sweeps, pager>>

SessionsRead == UNION {PayloadsFault(id) : id \in SessionIDs}

NextSessionRead ==
  \/ \E p \in SessionsRead :
       \E fail \in {NoFail, "index"} : WriteSession(p, fail)
  \/ \E id \in SessionIDs :
       \E fail \in {NoFail, "sessions", "index"} : RemoveSession(id, fail)
  \/ \E id \in SessionIDs : ReadSession(id)

SpecSessionRead == InitFresh /\ [][NextSessionRead]_vars

\* C14: readSession(id) is absent at the start; a writeSession of id that
\* returns makes it the payload written, whole; a removeSession of id that
\* returns makes it absent (one that throws leaves it or makes it absent);
\* no other step changes it; and the call readSession returns it.
C14_SessionRoundTrip ==
  /\ \A id \in SessionIDs : readSession(Db, id) = <<>>
  /\ [][/\ \A id \in SessionIDs :
            \A before \in {readSession(Db, id)} :
              \A after \in {readSession([Db EXCEPT !.sessions = sessions'], id)} :
                IF call'.op = "writeSession" /\ call'.id = id /\ ~call'.err
                  THEN after = <<call'.input>>
                ELSE IF call'.op = "removeSession" /\ call'.id = id
                  THEN after = <<>> \/ (call'.err /\ after = before)
                ELSE after = before
        /\ call'.op = "readSession" => ret' = readSession(Db, call'.id)]_vars

\* a readSession that returns the payload written last, which has an empty
\* title, while session_index holds the row of the payload written before
C14_Witness ==
  /\ call.op = "readSession"
  /\ ret # <<>>
  /\ ret[1].title = <<>>
  /\ call.id \in DOMAIN session_index
  /\ Cardinality(DOMAIN sessions) = 2

(***************************************************************************)
(* Writing and reading parts.  Two messages of one session; part 1 comes   *)
(* with two contents, and one part has no id.  The environment may make    *)
(* the last insert of a call throw.                                        *)
(***************************************************************************)
PartSessionID == 1
PartMessageIDs == {1, MaxMessage}

PartRecords ==
  {Part(1, "x"), Part(1, "y"), Part(NullInt, "x")}
    \cup {Part(id, "x") : id \in PartIDs \ {1}}

PartLists ==
  {<<>>} \cup {<<p>> : p \in PartRecords} \cup {<<p, q>> : p \in PartRecords, q \in PartRecords}

NextParts ==
  \/ \E mid \in PartMessageIDs : \E parts \in PartLists : \E fail \in {0, Len(parts)} :
       WriteParts(PartSessionID, mid, parts, fail)
  \/ \E mid \in PartMessageIDs : ReadParts(PartSessionID, mid)

SpecParts == InitFresh /\ [][NextParts]_vars

\* the last part of the list with the given id
LastWritten(parts, id) ==
  parts[CHOOSE i \in 1..Len(parts) :
          parts[i].id = id /\ \A j \in 1..Len(parts) : parts[j].id = id => j <= i]

\* C15: after a writeParts(S, M, ps) that returned, readParts(S, M) lists
\* by ascending id the parts that were stored under (S, M) and those of
\* ps, each part of ps as ps gives it last and each other part as it was;
\* the rows of other messages are as they were; readParts returns that list.
C15_PartsRoundTrip ==
  [][/\ (call'.op = "writeParts" /\ ~call'.err) =>
          \A old \in {readParts(MsgDb, call'.sessionID, call'.id)} :
            \A new \in {readParts([MsgDb EXCEPT !.message_parts = message_parts'],
                                  call'.sessionID, call'.id)} :
              /\ \A i, j \in 1..Len(new) : i < j => new[i].id < new[j].id
              /\ {new[i].id : i \in 1..Len(new)}
                   = {old[i].id : i \in 1..Len(old)}
                       \cup {call'.parts[i].id : i \in 1..Len(call'.parts)}
              /\ \A i \in 1..Len(new) :
                   IF \E k \in 1..Len(call'.parts) : call'.parts[k].id = new[i].id
                   THEN new[i] = LastWritten(call'.parts, new[i].id)
                   ELSE \E k \in 1..Len(old) : old[k] = new[i]
              /\ \A k \in DOMAIN message_parts \cup DOMAIN message_parts' :
                   (k[1] # call'.sessionID \/ k[2] # call'.id) =>
                     /\ k \in DOMAIN message_parts
                     /\ k \in DOMAIN message_parts'
                     /\ message_parts'[k] = message_parts[k]
     /\ call'.op = "readParts" =>
          ret' = readParts(MsgDb, call'.sessionID, call'.id)]_vars

\* parts written with the greater id first, part 1 replacing the one stored,
\* are read by ascending id, and the other message keeps its part
C15_Witness ==
  /\ call.op = "writeParts"
  /\ ~call.err
  /\ call.parts = <<Part(2, "x"), Part(1, "y")>>
  /\ readParts(MsgDb, call.sessionID, call.id) = <<Part(1, "y"), Part(2, "x")>>
  /\ \E mid \in PartMessageIDs \ {call.id} :
       readParts(MsgDb, call.sessionID, mid) = <<Part(1, "x")>>

\* C16: writeParts with an empty list returns and changes no table;
\* writeParts that throws leaves every table as it was.
C16_WritePartsAllOrNothing ==
  [][call'.op = "writeParts" =>
       /\ call'.parts = <<>> => (~call'.err /\ tables' = tables)
       /\ call'.err => tables' = tables]_vars

\* a writeParts that threw at its second part, after the insert of the
\* first, which is not stored
C16_Witness ==
  /\ call.op = "writeParts"
  /\ call.err
  /\ Len(call.parts) = 2
  /\ call.parts[1].id # NullInt
  /\ <<call.sessionID, call.id, call.parts[1].id>> \notin DOMAIN message_parts

(***************************************************************************)
(* Messages with their parts.  The query joins messages to message_parts   *)
(* (LEFT JOIN: a message without parts gives one row whose part is NULL),  *)
(* keeps the messages whose id the subquery selects, orders the rows by    *)
(* message id descending and part id ascending, and groupRows folds the    *)
(* rows into one entry for each run of rows with the same message id.      *)
(***************************************************************************)
\* a join on the message id alone
JoinedRowsByMessageID(d, sessionID, ids) ==
  UNION { IF {k \in DOMAIN d.message_parts : k[2] = id} = {}
          THEN {[messageID |-> id, message |-> d.messages[id].data,
                 partID |-> NullInt, part |-> <<>>]}
          ELSE {[messageID |-> id, message |-> d.messages[id].data,
                 partID |-> k[3], part |-> <<d.message_parts[k].data>>] :
                  k \in {x \in DOMAIN d.message_parts : x[2] = id}}
        : id \in ids \cap MessageIdsOf(d.messages, sessionID) }

\* the rows of the join for the messages `ids` of the session; part is a
\* list of zero or one document (zero for NULL), partID is NullInt for NULL
JoinedRows(d, sessionID, ids) ==
  UNION { IF PartKeysOf(d.message_parts, sessionID, id) = {}
          THEN {[messageID |-> id, message |-> d.messages[id].data,
                 partID |-> NullInt, part |-> <<>>]}
          ELSE {[messageID |-> id, message |-> d.messages[id].data,
                 partID |-> k[3], part |-> <<d.message_parts[k].data>>] :
                  k \in PartKeysOf(d.message_parts, sessionID, id)}
        : id \in ids \cap MessageIdsOf(d.messages, sessionID) }

\* ORDER BY m.id DESC, p.id ASC
JoinedRowBefore(a, b) ==
  \/ a.messageID > b.messageID
  \/ a.messageID = b.messageID /\ a.partID < b.partID

OrderJoinedRows(rows) ==
  [i \in 1..Cardinality(rows) |->
     CHOOSE r \in rows : Cardinality({x \in rows : JoinedRowBefore(x, r)}) = i - 1]

\* parsed.info ?? parsed
InfoOf(doc) == IF "info" \in DOMAIN doc THEN doc.info ELSE doc

RECURSIVE groupRowsFrom(_, _, _)
groupRowsFrom(rows, i, result) ==
  IF i > Len(rows) THEN result
  ELSE LET row == rows[i]
           opened == IF result = <<>> \/ result[Len(result)].info.id # row.messageID
                     THEN Append(result, [info |-> InfoOf(JSONparse(row.message)),
                                          parts |-> <<>>])
                     ELSE result
           pushed == IF row.part = <<>> THEN opened
                     ELSE [opened EXCEPT ![Len(opened)].parts =
                             Append(@, JSONparse(row.part[1]))]
       IN groupRowsFrom(rows, i + 1, pushed)

groupRows(rows) == groupRowsFrom(rows, 1, <<>>)

\* a listing whose LIMIT cuts the rows of the join
listMessagesWithPartsPageLimitRows(d, input) ==
  LET ids == {id \in MessageIdsOf(d.messages, input.sessionID) :
                CursorGiven(input.afterID) => id < input.afterID}
      rows == OrderJoinedRows(JoinedRows(d, input.sessionID, ids))
  IN groupRows(IF input.limit # NullInt THEN Limit(rows, input.limit) ELSE rows)

\* the four branches differ in the subquery alone, which is the query of the
\* same branch of listMessagesPage
listMessagesWithPartsPage(d, input) ==
  LET afterID == input.afterID
      limit == input.limit
      ids == IF CursorGiven(afterID) /\ limit # NullInt
               THEN PageAfterLimit(d.messages, input.sessionID, afterID, limit)
             ELSE IF CursorGiven(afterID) THEN PageAfter(d.messages, input.sessionID, afterID)
             ELSE IF limit # NullInt THEN PageLimit(d.messages, input.sessionID, limit)
             ELSE PageAll(d.messages, input.sessionID)
  IN groupRows(OrderJoinedRows(JoinedRows(d, input.sessionID, Range(ids))))

ListMessagesWithPartsPage(input) ==
  /\ ret' = listMessagesWithPartsPage(MsgDb, input)
  /\ call' = [op |-> "listMessagesWithPartsPage", input |-> input, err |-> FALSE,
              seeded |-> Seeded]
  /\ UNCHANGED <<tables, sweeps, pager>>

\* Two messages, each in the listed session or in another one, and parts
\* written under the listed session and, for message 1, under the other.
JoinSessionIDs == {1, MaxSession}
JoinMessageIDs == {1, MaxMessage}
JoinPartIDs == {1, MaxPart}
JoinSlots == {<<1, 1>>, <<1, MaxMessage>>, <<MaxSession, 1>>}

JoinPageInputs ==
  [sessionID : {1},
   limit : {NullInt} \cup 0..MaxLimit,
   afterID : {NullInt, EmptyID, MaxMessage}]

MessagesJoined ==
  { [info |-> <<Info(id, sid)>>, parts |-> <<>>] : id \in JoinMessageIDs, sid \in JoinSessionIDs }
PartsJoined == { <<Part(pid, "x")>> : pid \in JoinPartIDs }

NextJoin ==
  \/ \E m \in MessagesJoined : WriteMessage(m)
  \/ \E slot \in JoinSlots : \E parts \in PartsJoined :
       WriteParts(slot[1], slot[2], parts, 0)
  \/ \E input \in JoinPageInputs : ListMessagesWithPartsPage(input)

SpecJoin == InitFresh /\ [][NextJoin]_vars

\* C18: listMessagesWithPartsPage returns, for the ids that listMessagesPage
\* returns for the same input and in that order, one entry each, with the
\* info of the message and the list that readParts returns for it.
C18_WithPartsMatchesPage ==
  call.op = "listMessagesWithPartsPage" =>
    \A page \in {listMessagesPage(messages, call.input)} :
      ret = [i \in 1..Len(page) |->
               [info |-> readMessage(MsgDb, call.input.sessionID, page[i])[1].info,
                parts |-> readParts(MsgDb, call.input.sessionID, page[i])]]

\* a page of one message under a limit of 1: the message has two parts,
\* both returned, and the message below it, without parts, is left out
C18_Witness ==
  /\ call.op = "listMessagesWithPartsPage"
  /\ call.input.limit = 1
  /\ Len(ret) = 1
  /\ Len(ret[1].parts) = 2
  /\ ret[1].parts[1].id < ret[1].parts[2].id
  /\ Cardinality(MessageIdsOf(messages, call.input.sessionID)) = 2

(***************************************************************************)
(* Listing with every filter.  Sessions of two projects, in two            *)
(* directories, archived or not, with updated_at 0, MaxTime or NULL, and   *)
(* queries that combine start, directory, includeArchived, afterID and     *)
(* limit.                                                                  *)
(***************************************************************************)
PayloadsQuery(id) ==
  { [Titled(id, <<"A">>) EXCEPT !.updated = 0],
    Titled(id, <<"A">>),
    [Titled(id, <<"A">>) EXCEPT !.updated = MaxTime, !.directory = "/b"],
    [Titled(id, <<"A">>) EXCEPT !.updated = MaxTime, !.archived = MaxTime],
    [Titled(id, <<"A">>) EXCEPT !.updated = MaxTime, !.projectID = "p2"] }

Queries ==
  { [BaseQuery("p1") EXCEPT !.start = start, !.directory = directory,
                            !.includeArchived = includeArchived,
                            !.afterID = afterID, !.limit = limit] :
      start \in {NullInt, MaxTime}, directory \in {Undef, "/a"},
      includeArchived \in {Undef, "false"},
      afterID \in {NullInt, 1, MaxListSession}, limit \in {NullInt, 1} }

SessionsQuery == UNION {PayloadsQuery(id) : id \in ListSessionIDs}

NextQuery ==
  \/ \E p \in SessionsQuery : WriteSession(p, NoFail)
  \/ \E input \in Queries : ListSessionIndex(input)

SpecQuery == InitFresh /\ [][NextQuery]_vars

\* the rows of the project that satisfy start, directory and includeArchived
MatchingRows(index, input) ==
  {r \in {index[id] : id \in DOMAIN index} :
     /\ r.projectID = input.projectID
     /\ input.start # NullInt => (r.updated_at # NullInt /\ r.updated_at >= input.start)
     /\ input.directory \notin {Undef, ""} => r.directory = input.directory
     /\ input.includeArchived = "false" => r.archived_at = NullInt}

\* C19: listSessionIndex returns the rows of the project that satisfy start,
\* directory and includeArchived (archived rows stay when includeArchived
\* is omitted), ordered by updated_at descending and id descending, cut to
\* the rows listed after the cursor row when afterID resolves to one, and
\* then cut to the first `limit`.
C19_FiltersThenOrderThenLimit ==
  call.op = "listSessionIndex" =>
    \A ordered \in {OrderIndexRows(MatchingRows(session_index, call.input))} :
      \A after \in {IF call.input.afterID # NullInt
                      /\ call.input.afterID \in DOMAIN session_index
                    THEN SelectSeq(ordered,
                           LAMBDA r : IndexRowBefore(session_index[call.input.afterID], r))
                    ELSE ordered} :
        ret = IF call.input.limit # NullInt THEN Limit(after, call.input.limit) ELSE after

(***************************************************************************)
(* Listing with a search.  Titles and search strings are tuples of         *)
(* characters over the letters a, b, A, B and the characters _ and %.      *)
(***************************************************************************)
Titles == {<<"A">>, <<"a", "b">>, <<"B", "a">>, <<"a", "_">>}

Searches == {<<>>, <<"a">>, <<"B">>, <<"b", "A">>, <<"a", "b">>, <<"_">>, <<"%">>}

SessionsSearch == { Titled(id, title) : id \in ListSessionIDs, title \in Titles }
QueriesSearch == { [BaseQuery("p1") EXCEPT !.search = search] : search \in Searches }

NextSearch ==
  \/ \E p \in SessionsSearch : WriteSession(p, NoFail)
  \/ \E input \in QueriesSearch : ListSessionIndex(input)

SpecSearch == InitFresh /\ [][NextSearch]_vars

LowerAll(t) == [i \in 1..Len(t) |-> Lower(t[i])]

\* q is a run of consecutive characters of title, letter case aside
ContainsIgnoringCase(title, q) ==
  \E k \in 0..(Len(title) - Len(q)) :
    SubSeq(LowerAll(title), k + 1, k + Len(q)) = LowerAll(q)

\* C20: a listing with a search string q returns a row of the project
\* exactly when its title contains q, letter case aside, every character of
\* q standing for itself.
C20_SearchIsSubstringMatch ==
  call.op = "listSessionIndex" =>
    \A id \in DOMAIN session_index :
      (\E i \in 1..Len(ret) : ret[i].id = id)
        <=> ContainsIgnoringCase(session_index[id].title, call.input.search)

(***************************************************************************)
(* The other public operations: the meta store, writeSessionIndex, the     *)
(* listings of ids, countMessages, listMessagesInfoPage, removeMessageParts *)
(* and the diffs.  The value given to writeDiff is a list of zero or one    *)
(* JSON value, zero for undefined: JSON.stringify(undefined) is undefined,  *)
(* which the NOT NULL constraint on session_diff.data rejects.              *)
(***************************************************************************)
\* a listing read from session_index
listSessionsOfIndex(d, projectID) ==
  OrderIdsAsc({id \in DOMAIN d.session_index : d.session_index[id].projectID = projectID})

\* SELECT id FROM sessions WHERE projectID = ? ORDER BY id ASC
listSessions(d, projectID) ==
  OrderIdsAsc({id \in DOMAIN d.sessions : d.sessions[id].projectID = projectID})

\* SELECT id FROM messages WHERE sessionID = ? ORDER BY id ASC
listMessages(d, sessionID) == OrderIdsAsc(MessageIdsOf(d.messages, sessionID))

\* a count over the whole table
countMessagesOfAll(d, sessionID) == Cardinality(DOMAIN d.messages)

\* SELECT COUNT(*) FROM messages WHERE sessionID = ?
countMessages(d, sessionID) == Cardinality(MessageIdsOf(d.messages, sessionID))

\* a decoder that takes the stored document itself for the info
messageInfoFromDataBare(data) ==
  LET info == JSONparse(data)
  IN IF "id" \notin DOMAIN info THEN <<>>
     ELSE IF "sessionID" \notin DOMAIN info THEN <<>>
     ELSE <<info>>

\* the info of a stored document, as a list of zero (the early returns) or
\* one info
messageInfoFromData(data) ==
  LET parsed == JSONparse(data)
      info == InfoOf(parsed)
  IN IF "id" \notin DOMAIN info THEN <<>>
     ELSE IF "sessionID" \notin DOMAIN info THEN <<>>
     ELSE <<info>>

\* for (const row of rows): the rows that decode, each with no parts
RECURSIVE parseRows(_)
parseRows(rows) ==
  IF rows = <<>> THEN <<>>
  ELSE LET info == messageInfoFromData(Head(rows).data)
       IN IF info = <<>> THEN parseRows(Tail(rows))
          ELSE <<[info |-> info[1], parts |-> <<>>]>> \o parseRows(Tail(rows))

\* SELECT data FROM messages WHERE sessionID = ? AND id IN (ids) ORDER BY id DESC
SelectMessageData(msgs, sessionID, ids) ==
  LET order == OrderIdsDesc(MessageIdsOf(msgs, sessionID) \cap ids)
  IN [i \in 1..Len(order) |-> [data |-> msgs[order[i]].data]]

listMessagesInfoPage(d, input) ==
  LET afterID == input.afterID
      limit == input.limit
      ids == IF CursorGiven(afterID) /\ limit # NullInt
               THEN PageAfterLimit(d.messages, input.sessionID, afterID, limit)
             ELSE IF CursorGiven(afterID) THEN PageAfter(d.messages, input.sessionID, afterID)
             ELSE IF limit # NullInt THEN PageLimit(d.messages, input.sessionID, limit)
             ELSE PageAll(d.messages, input.sessionID)
  IN parseRows(SelectMessageData(d.messages, input.sessionID, Range(ids)))

\* a read that returns the diff of any session
readDiffAny(diffs, sessionID) ==
  IF DOMAIN diffs # {} THEN <<JSONparse(diffs[CHOOSE x \in DOMAIN diffs : TRUE].data)>>
  ELSE <<>>

readDiff(diffs, sessionID) ==
  IF sessionID \in DOMAIN diffs THEN <<JSONparse(diffs[sessionID].data)>> ELSE <<>>

writeDiffThrows(value) == value = <<>>

\* an insert that leaves the row of a session that has one
writeDiffIgnoring(diffs, sessionID, value) ==
  IF writeDiffThrows(value) \/ sessionID \in DOMAIN diffs THEN diffs
  ELSE Put(diffs, sessionID, [data |-> JSONstringify(value[1])])

writeDiff(diffs, sessionID, value) ==
  IF writeDiffThrows(value) THEN diffs
  ELSE Put(diffs, sessionID, [data |-> JSONstringify(value[1])])

removeDiff(diffs, sessionID) == Del(diffs, sessionID)

MetaGet(key) ==
  /\ ret' = metaGet(meta, key)
  /\ call' = [op |-> "metaGet", key |-> key, err |-> FALSE, seeded |-> Seeded]
  /\ UNCHANGED <<tables, sweeps, pager>>

MetaSet(key, value) ==
  /\ meta' = metaSet(meta, key, value)
  /\ call' = [op |-> "metaSet", key |-> key, value |-> value, err |-> FALSE,
              seeded |-> Seeded]
  /\ ret' = <<>>
  /\ UNCHANGED <<sessions, session_index, sweeps, msgVars>>

WriteSessionIndex(session) ==
  /\ \E d \in {writeSessionIndex(Db, session)} : SetDb(d)
  /\ call' = [op |-> "writeSessionIndex", id |-> session.id, input |-> session,
              err |-> FALSE, seeded |-> Seeded]
  /\ ret' = <<>>
  /\ UNCHANGED msgVars

ListSessions(projectID) ==
  /\ ret' = listSessions(Db, projectID)
  /\ call' = [op |-> "listSessions", projectID |-> projectID, err |-> FALSE,
              seeded |-> Seeded]
  /\ UNCHANGED <<tables, sweeps, pager>>

ListMessages(sessionID) ==
  /\ ret' = listMessages(MsgDb, sessionID)
  /\ call' = [op |-> "listMessages", sessionID |-> sessionID, err |-> FALSE,
              seeded |-> Seeded]
  /\ UNCHANGED <<tables, sweeps, pager>>

CountMessages(sessionID) ==
  /\ ret' = countMessages(MsgDb, sessionID)
  /\ call' = [op |-> "countMessages", sessionID |-> sessionID, err |-> FALSE,
              seeded |-> Seeded]
  /\ UNCHANGED <<tables, sweeps, pager>>

ListMessagesInfoPage(input) ==
  /\ ret' = listMessagesInfoPage(MsgDb, input)
  /\ call' = [op |-> "listMessagesInfoPage", input |-> input, err |-> FALSE,
              seeded |-> Seeded]
  /\ UNCHANGED <<tables, sweeps, pager>>

RemoveMessageParts(sessionID, messageID) ==
  /\ \E d \in {removeMessageParts(MsgDb, sessionID, messageID)} : SetMsgDb(d)
  /\ call' = [op |-> "removeMessageParts", sessionID |-> sessionID, id |-> messageID,
              err |-> FALSE, seeded |-> Seeded]
  /\ ret' = <<>>
  /\ UNCHANGED <<sessVars, pager>>

diffFrame == <<sessions, session_index, meta, messages, message_parts, sweeps, pager>>

ReadDiff(sessionID) ==
  /\ ret' = readDiff(session_diff, sessionID)
  /\ call' = [op |-> "readDiff", sessionID |-> sessionID, err |-> FALSE, seeded |-> Seeded]
  /\ UNCHANGED <<tables, sweeps, pager>>

WriteDiff(sessionID, value) ==
  /\ session_diff' = writeDiff(session_diff, sessionID, value)
  /\ call' = [op |-> "writeDiff", sessionID |-> sessionID, value |-> value,
              err |-> writeDiffThrows(value), seeded |-> Seeded,
              replaced |-> sessionID \in DOMAIN session_diff]
  /\ ret' = <<>>
  /\ UNCHANGED diffFrame

RemoveDiff(sessionID) ==
  /\ session_diff' = removeDiff(session_diff, sessionID)
  /\ call' = [op |-> "removeDiff", sessionID |-> sessionID, err |-> FALSE,
              seeded |-> Seeded]
  /\ ret' = <<>>
  /\ UNCHANGED diffFrame

(***************************************************************************)
(* Listing with a cursor id that has no index row: an id never written, an *)
(* id whose session derives no row, an id removed, the empty string.       *)
(***************************************************************************)
PayloadsCursorMiss(id) ==
  { [Titled(id, <<"A">>) EXCEPT !.updated = 0],
    [Titled(id, <<"A">>) EXCEPT !.updated = MaxTime],
    [Titled(id, <<"A">>) EXCEPT !.title = UndefT] }

SessionsCursorMiss == UNION {PayloadsCursorMiss(id) : id \in ListSessionIDs}

QueriesCursorMiss ==
  { [BaseQuery("p1") EXCEPT !.afterID = after, !.limit = limit] :
      after \in ListSessionIDs \cup {NullInt, EmptyID}, limit \in {NullInt, 1} }

NextCursorMiss ==
  \/ \E p \in SessionsCursorMiss : WriteSession(p, NoFail)
  \/ \E id \in ListSessionIDs : RemoveSession(id, NoFail)
  \/ \E input \in QueriesCursorMiss : ListSessionIndex(input)

SpecCursorMiss == InitFresh /\ [][NextCursorMiss]_vars

\* C21: a listSessionIndex whose afterID has no session_index row returns
\* without an error what the same query without afterID returns from the
\* same database.
C21_UnresolvedCursorIsNoCursor ==
  [][(/\ call'.op = "listSessionIndex"
      /\ call'.input.afterID # NullInt
      /\ call'.input.afterID \notin DOMAIN session_index') =>
       /\ ~call'.err
       /\ ret' = listSessionIndex(Db, [call'.input EXCEPT !.afterID = NullInt]).value]_vars

\* a listing whose cursor is the id of a stored session that has no index
\* row: it returns the two rows of the index
C21_Witness ==
  /\ call.op = "listSessionIndex"
  /\ call.input.afterID \in DOMAIN sessions \ DOMAIN session_index
  /\ call.input.afterID = MaxListSession
  /\ call.input.limit = NullInt
  /\ Len(ret) = 2

(***************************************************************************)
(* Writing a session that derives no index row.                            *)
(***************************************************************************)
\* C22: a writeSession whose payload has no title or directory, an empty
\* one or one that is not a string, returns without an error, readSession
\* of its id returns the payload, and readSessionIndexRow of its id returns
\* nothing.
C22_ValidationSkipSilent ==
  (call.op = "writeSession" /\ sessionIndexRow(call.input) = <<>>) =>
    /\ ~call.err
    /\ readSession(Db, call.id) = <<call.input>>
    /\ readSessionIndexRow(Db, call.id).value = <<>>

(***************************************************************************)
(* The whole public surface: every exported operation, on one project,     *)
(* the session ids of the specification with failures, one message id and  *)
(* one part id.  No statement fails.                                       *)
(***************************************************************************)
SurfaceMessageID == 1
SurfacePartID == 1
SurfaceKeys == {SeededKey, "k"}
DiffValues == {<<>>, <<[files |-> <<>>]>>, <<[files |-> <<"a">>]>>}

SurfacePage(sessionID) == [sessionID |-> sessionID, limit |-> NullInt, afterID |-> NullInt]

MessagesSurface ==
  { [info |-> <<Info(SurfaceMessageID, sid)>>, parts |-> <<>>] : sid \in FaultSessionIDs }
PagesSurface == { SurfacePage(sid) : sid \in FaultSessionIDs }
PartsSurface == <<Part(SurfacePartID, "x")>>

NextSurfaceSessions ==
  \/ \E p \in SessionsRemoval : WriteSession(p, NoFail)
  \/ \E id \in FaultSessionIDs : RemoveSession(id, NoFail)
  \/ \E id \in FaultSessionIDs : ReadSession(id)
  \/ ListSessions("p1")
  \/ \E key \in SurfaceKeys : MetaGet(key)
  \/ \E value \in {"1", ""} : MetaSet(SeededKey, value)

NextSurfaceIndex ==
  \/ EnsureSessionIndex
  \/ \E id \in FaultSessionIDs : ReadSessionIndexRow(id)
  \/ ListSessionIndex(WholeProject)
  \/ \E id \in FaultSessionIDs : ListSessionIndexChildren(id)

NextSurfaceMessages ==
  \/ \E m \in MessagesSurface : WriteMessage(m)
  \/ \E sid \in FaultSessionIDs : ReadMessage(sid, SurfaceMessageID)
  \/ \E sid \in FaultSessionIDs : RemoveMessage(sid, SurfaceMessageID, NoFail)
  \/ \E sid \in FaultSessionIDs : RemoveMessages(sid, NoFail)
  \/ \E sid \in FaultSessionIDs : ListMessages(sid)
  \/ \E sid \in FaultSessionIDs : CountMessages(sid)
  \/ \E input \in PagesSurface : ListMessagesPage(input)
  \/ \E input \in PagesSurface : ListMessagesInfoPage(input)
  \/ \E input \in PagesSurface : ListMessagesWithPartsPage(input)

NextSurfaceParts ==
  \/ \E sid \in FaultSessionIDs :
       WriteParts(sid, SurfaceMessageID, PartsSurface, 0)
  \/ \E sid \in FaultSessionIDs : ReadParts(sid, SurfaceMessageID)
  \/ \E sid \in FaultSessionIDs : RemoveParts(sid, SurfaceMessageID, <<SurfacePartID>>, 0)
  \/ \E sid \in FaultSessionIDs : RemoveMessageParts(sid, SurfaceMessageID)

NextSurfaceDiffs ==
  \/ \E sid \in FaultSessionIDs : ReadDiff(sid)
  \/ \E sid \in FaultSessionIDs : \E value \in DiffValues : WriteDiff(sid, value)
  \/ \E sid \in FaultSessionIDs : RemoveDiff(sid)

NextSurface ==
  \/ NextSurfaceSessions
  \/ \E p \in SessionsRemoval : WriteSessionIndex(p)
  \/ NextSurfaceIndex
  \/ NextSurfaceMessages
  \/ NextSurfaceParts
  \/ NextSurfaceDiffs

SpecSurface == InitFresh /\ [][NextSurface]_vars

\* C23: a session_index row is inserted or changed only by a writeSession
\* of its id or by the backfill of a stored session, and deleted only by a
\* removeSession of its id; every session_index row has a sessions row with
\* its id.
C23_IndexFollowsSessionWrites ==
  [][/\ \A id \in DOMAIN session_index' :
          (id \notin DOMAIN session_index \/ session_index'[id] # session_index[id]) =>
            \/ call'.op = "writeSession" /\ call'.id = id
            \/ /\ call'.op \in IndexReads \cup {"ensureSessionIndex"}
               /\ ~call'.seeded
               /\ id \in DOMAIN sessions
     /\ \A id \in DOMAIN session_index \ DOMAIN session_index' :
          call'.op = "removeSession" /\ call'.id = id
     /\ DOMAIN session_index' \subseteq DOMAIN sessions']_vars

(***************************************************************************)
(* Writing over an indexed session.  A payload with every field the index  *)
(* reads, one with title and directory alone, one between the two, and one *)
(* that derives no row.                                                    *)
(***************************************************************************)
FullSession(id) ==
  [Titled(id, <<"A">>) EXCEPT
     !.parentID = 1, !.version = "v1",
     !.created = 0, !.updated = MaxTime, !.archived = MaxTime,
     !.additions = 1, !.deletions = 1, !.files = 1,
     !.share_url = "https://share", !.worktree_path = "/w", !.worktree_branch = "b",
     !.mode = "build"]

PayloadsUpsert(id) ==
  { FullSession(id),
    Titled(id, <<"B">>),
    [Titled(id, <<"B">>) EXCEPT !.version = "v2", !.created = MaxTime, !.additions = 0,
                                !.worktree_path = "/x"],
    [FullSession(id) EXCEPT !.title = UndefT] }

SessionsUpsert == UNION {PayloadsUpsert(id) : id \in SessionIDs}

NextUpsert ==
  \/ \E p \in SessionsUpsert : WriteSession(p, NoFail)
  \/ \E id \in SessionIDs : RemoveSession(id, NoFail)
  \/ \E id \in SessionIDs : ReadSessionIndexRow(id)

SpecUpsert == InitFresh /\ [][NextUpsert]_vars

\* C24: a writeSession over an indexed id, with a payload that has title
\* and directory, leaves for that id the index row whose every column is
\* read from the new payload: 0 for a counter the payload does not have,
\* NULL for version, archived_at, share_url, worktree_path,
\* worktree_branch, parentID and data when the payload does not have them.
C24_UpsertIsFullReplace ==
  [][(/\ call'.op = "writeSession"
      /\ ~call'.err
      /\ call'.indexed
      /\ call'.input.title \notin {<<>>, UndefT, NotStrT}
      /\ call'.input.directory \notin {"", Undef, NotStr}) =>
       \A p \in {call'.input} :
         \A row \in {session_index'[call'.id]} :
           /\ row.id = p.id
           /\ row.projectID = p.projectID
           /\ row.parentID = p.parentID
           /\ row.title = p.title
           /\ row.directory = p.directory
           /\ row.version = IF p.version = Undef THEN Null ELSE p.version
           /\ row.created_at = p.created
           /\ row.updated_at = IF p.updated = NullInt THEN p.created ELSE p.updated
           /\ row.archived_at = p.archived
           /\ row.additions = IF p.additions = NullInt THEN 0 ELSE p.additions
           /\ row.deletions = IF p.deletions = NullInt THEN 0 ELSE p.deletions
           /\ row.files_changed = IF p.files = NullInt THEN 0 ELSE p.files
           /\ row.share_url = IF p.share_url = Undef THEN Null ELSE p.share_url
           /\ row.worktree_path = IF p.worktree_path = Undef THEN Null ELSE p.worktree_path
           /\ row.worktree_branch
                = IF p.worktree_branch = Undef THEN Null ELSE p.worktree_branch
           /\ row.data = IF p.mode = Undef THEN <<>>
                         ELSE <<JSONstringify([mode |-> p.mode, agent |-> Undef,
                                               model |-> Undef, variant |-> Undef,
                                               thinking |-> Undef,
                                               worktreeRequested |-> Undef,
                                               worktreeCleanup |-> Undef])>>]_vars

\* the payload with title and directory alone written over an indexed id:
\* the row has the defaults, next to the row of a full payload
C24_Witness ==
  /\ call.op = "writeSession"
  /\ call.indexed
  /\ call.input = Titled(call.id, <<"B">>)
  /\ session_index[call.id].version = Null
  /\ session_index[call.id].additions = 0
  /\ session_index[call.id].data = <<>>
  /\ \E other \in DOMAIN session_index : session_index[other].version = "v1"

(***************************************************************************)
(* Reads by id.  Two sessions, one message id and one part id; every kind  *)
(* of row is written, removed and read.                                    *)
(***************************************************************************)
ReadSessionIDs == {1, MaxSession}

SessionsReads == { Titled(id, <<"A">>) : id \in ReadSessionIDs }
MessagesReads ==
  { [info |-> <<Info(SurfaceMessageID, sid)>>, parts |-> <<>>] : sid \in ReadSessionIDs }
DiffWritten == <<[files |-> <<"a">>]>>

NextReadsSessions ==
  \/ \E p \in SessionsReads : WriteSession(p, NoFail)
  \/ \E id \in ReadSessionIDs : RemoveSession(id, NoFail)
  \/ \E id \in ReadSessionIDs : ReadSession(id)
  \/ \E id \in ReadSessionIDs : ReadSessionIndexRow(id)
  \/ \E key \in SurfaceKeys : MetaGet(key)

NextReadsMessages ==
  \/ \E m \in MessagesReads : WriteMessage(m)
  \/ \E sid \in ReadSessionIDs : RemoveMessage(sid, SurfaceMessageID, NoFail)
  \/ \E sid \in ReadSessionIDs : ReadMessage(sid, SurfaceMessageID)
  \/ \E sid \in ReadSessionIDs :
       WriteParts(sid, SurfaceMessageID, PartsSurface, 0)
  \/ \E sid \in ReadSessionIDs : ReadParts(sid, SurfaceMessageID)

NextReadsDiffs ==
  \/ \E sid \in ReadSessionIDs : WriteDiff(sid, DiffWritten)
  \/ \E sid \in ReadSessionIDs : RemoveDiff(sid)
  \/ \E sid \in ReadSessionIDs : ReadDiff(sid)

NextReads == NextReadsSessions \/ NextReadsMessages \/ NextReadsDiffs

SpecReads == InitFresh /\ [][NextReads]_vars

Reads == {"readSession", "readMessage", "readDiff", "readSessionIndexRow", "metaGet",
          "readParts"}

\* C25: in every state, a read by an id or key that has no row returns
\* nothing and raises no error: readSession, readMessage (also for the id
\* of a message of another session), readDiff, readSessionIndexRow and
\* metaGet return absent, and readParts returns the empty list; the read
\* that was called has returned so.
C25_UnknownIdIsAbsent ==
  /\ \A id \in SessionIDs \ DOMAIN sessions :
       /\ readSession(Db, id) = <<>>
       /\ id \notin DOMAIN session_index => readSessionIndexRow(Db, id).value = <<>>
  /\ \A sid \in SessionIDs : \A mid \in MessageIDs :
       /\ mid \notin MessageIdsOf(messages, sid) => readMessage(MsgDb, sid, mid) = <<>>
       /\ PartKeysOf(message_parts, sid, mid) = {} => readParts(MsgDb, sid, mid) = <<>>
  /\ \A sid \in SessionIDs \ DOMAIN session_diff : readDiff(session_diff, sid) = <<>>
  /\ \A key \in SurfaceKeys \ DOMAIN meta : metaGet(meta, key) = Undef
  /\ call.op \in Reads => ~call.err
  /\ (call.op = "readSession" /\ call.id \notin DOMAIN sessions) => ret = <<>>
  /\ (call.op = "readMessage" /\ call.id \notin MessageIdsOf(messages, call.sessionID)) =>
       ret = <<>>
  /\ (call.op = "readDiff" /\ call.sessionID \notin DOMAIN session_diff) => ret = <<>>
  /\ (call.op = "readSessionIndexRow" /\ call.id \notin DOMAIN session_index) => ret = <<>>
  /\ (call.op = "metaGet" /\ call.key \notin DOMAIN meta) => ret = Undef
  /\ (call.op = "readParts" /\ PartKeysOf(message_parts, call.sessionID, call.id) = {}) =>
       ret = <<>>

\* a readMessage that returned nothing for the id of a message stored in
\* the other session, in a store where the session asked for has a diff and
\* an index row
C25_Witness ==
  /\ call.op = "readMessage"
  /\ ret = <<>>
  /\ call.id \in DOMAIN messages
  /\ call.sessionID \in DOMAIN session_diff
  /\ call.sessionID \in DOMAIN session_index

(***************************************************************************)
(* Diffs.  Two sessions; a diff is written with one of two values or with  *)
(* undefined, removed and read, and the sessions themselves are written    *)
(* and removed.                                                            *)
(***************************************************************************)
NextDiff ==
  \/ \E sid \in ReadSessionIDs : \E value \in DiffValues : WriteDiff(sid, value)
  \/ \E sid \in ReadSessionIDs : RemoveDiff(sid)
  \/ \E sid \in ReadSessionIDs : ReadDiff(sid)
  \/ \E p \in SessionsReads : WriteSession(p, NoFail)
  \/ \E id \in ReadSessionIDs : RemoveSession(id, NoFail)

SpecDiff == InitFresh /\ [][NextDiff]_vars

\* C26: readDiff(S) is absent at the start; a writeDiff(S, v) that returns
\* makes it v, whatever was stored; a removeDiff(S) makes it absent; no
\* other step changes it, a writeDiff or removeDiff of another session
\* included; and the call readDiff returns it.
C26_DiffIsLastWritten ==
  /\ \A sid \in SessionIDs : readDiff(session_diff, sid) = <<>>
  /\ [][/\ \A sid \in SessionIDs :
            \A before \in {readDiff(session_diff, sid)} :
              \A after \in {readDiff(session_diff', sid)} :
                IF call'.op = "writeDiff" /\ call'.sessionID = sid /\ ~call'.err
                  THEN after = call'.value
                ELSE IF call'.op = "removeDiff" /\ call'.sessionID = sid
                  THEN after = <<>>
                ELSE after = before
        /\ call'.op = "readDiff" => ret' = readDiff(session_diff, call'.sessionID)]_vars

\* a writeDiff that replaced the diff stored for its session, while the
\* other session keeps a diff with the other value
C26_Witness ==
  /\ call.op = "writeDiff"
  /\ ~call.err
  /\ call.replaced
  /\ readDiff(session_diff, call.sessionID) = <<[files |-> <<>>]>>
  /\ \E other \in DOMAIN session_diff :
       other # call.sessionID /\ readDiff(session_diff, other) = <<[files |-> <<"a">>]>>

(***************************************************************************)
(* Counting and listing messages.  Messages are written under either of    *)
(* two sessions (a write of a stored id under the other session moves the  *)
(* row: messages.id is the primary key), removed one by one and by         *)
(* session, counted and listed.                                            *)
(***************************************************************************)
PagesCount == { SurfacePage(sid) : sid \in SessionIDs }

NextCount ==
  \/ \E m \in MessagesWritten : WriteMessage(m)
  \/ \E sid \in SessionIDs : \E id \in MessageIDs : RemoveMessage(sid, id, NoFail)
  \/ \E sid \in SessionIDs : RemoveMessages(sid, NoFail)
  \/ \E sid \in SessionIDs : CountMessages(sid)
  \/ \E sid \in SessionIDs : ListMessages(sid)
  \/ \E input \in PagesCount : ListMessagesPage(input)

SpecCount == InitFresh /\ [][NextCount]_vars

\* the session and id of the message a writeMessage call stores, as a list
\* of zero or one pair
Written(c) ==
  IF c.op = "writeMessage" /\ c.input.info # <<>>
  THEN <<[id |-> c.input.info[1].id, sessionID |-> c.input.info[1].sessionID]>>
  ELSE <<>>

\* C27: countMessages(S) is 0 at the start; a writeMessage of a new id
\* under S adds one and a writeMessage of an id stored under S adds none
\* (and takes one from the session the id was stored under, if another); a
\* removeMessage(S, id) takes one when id is stored under S and none
\* otherwise; removeMessages(S) makes it 0; no other step changes it; it is
\* the length of listMessages(S) and of listMessagesPage({sessionID: S});
\* and the call countMessages returns it.
C27_CountIsNumberStored ==
  /\ \A sid \in SessionIDs : countMessages(MsgDb, sid) = 0
  /\ [][/\ \A sid \in SessionIDs :
            \A before \in {countMessages(MsgDb, sid)} :
              \A after \in {countMessages([MsgDb EXCEPT !.messages = messages'], sid)} :
                \A w \in {Written(call')} :
                  /\ after =
                       IF w # <<>>
                         THEN LET was == IF w[1].id \in DOMAIN messages
                                         THEN <<messages[w[1].id].sessionID>> ELSE <<>>
                              IN IF w[1].sessionID = sid
                                   THEN IF was = <<sid>> THEN before ELSE before + 1
                                 ELSE IF was = <<sid>> THEN before - 1 ELSE before
                       ELSE IF call'.op = "removeMessage" /\ call'.sessionID = sid
                         THEN IF call'.id \in DOMAIN messages
                                 /\ messages[call'.id].sessionID = sid
                              THEN before - 1 ELSE before
                       ELSE IF call'.op = "removeMessages" /\ call'.sessionID = sid
                         THEN 0
                       ELSE before
                  /\ after = Len(listMessages([MsgDb EXCEPT !.messages = messages'], sid))
                  /\ after = Len(listMessagesPage(messages', SurfacePage(sid)))
        /\ call'.op = "countMessages" => ret' = countMessages(MsgDb, call'.sessionID)]_vars

\* a count of 2 for a session while the other session holds the third
\* message
C27_Witness ==
  /\ call.op = "countMessages"
  /\ ret = 2
  /\ Cardinality(DOMAIN messages) = 3

\* C28: in every row of messages, the info of the stored document has the
\* row's id as id and the row's sessionID as sessionID.
C28_InfoAgreesWithRow ==
  \A id \in DOMAIN messages :
    \A info \in {JSONparse(messages[id].data).info} :
      /\ info.id = id
      /\ info.sessionID = messages[id].sessionID

\* a writeMessage that wrote again, under another session, an id that was
\* stored, next to a row of the session it was stored under
C28_Witness ==
  /\ call.op = "writeMessage"
  /\ call.replaced
  /\ call.input.info[1].sessionID = MaxSession
  /\ messages[call.input.info[1].id].sessionID = MaxSession
  /\ \E other \in DOMAIN messages : messages[other].sessionID = 1

(***************************************************************************)
(* Listing ids.  Sessions of two projects, with and without title, and     *)
(* messages of two sessions.                                               *)
(***************************************************************************)
PayloadsList(id) ==
  { Titled(id, <<"A">>),
    [Titled(id, <<"A">>) EXCEPT !.title = UndefT],
    [Titled(id, <<"A">>) EXCEPT !.projectID = "p2"] }

MessagesListed == MessageInputs(JoinMessageIDs)

SessionsList == UNION {PayloadsList(id) : id \in SessionIDs}

NextList ==
  \/ \E p \in SessionsList : WriteSession(p, NoFail)
  \/ \E id \in SessionIDs : RemoveSession(id, NoFail)
  \/ \E project \in {"p1", "p2"} : ListSessions(project)
  \/ \E m \in MessagesListed : WriteMessage(m)
  \/ \E sid \in SessionIDs : \E id \in JoinMessageIDs : RemoveMessage(sid, id, NoFail)
  \/ \E sid \in SessionIDs : ListMessages(sid)

SpecList == InitFresh /\ [][NextList]_vars

Reverse(list) == [i \in 1..Len(list) |-> list[Len(list) + 1 - i]]

\* C29: listSessions(P) returns the ids of the sessions rows of project P,
\* those without an index row included, each once and in ascending order;
\* listMessages(S) returns the ids of the messages rows of session S, each
\* once and in ascending order, which is listMessagesPage({sessionID: S})
\* reversed.
C29_ListsAreAscendingIds ==
  /\ call.op = "listSessions" =>
       /\ Range(ret) = {id \in DOMAIN sessions : sessions[id].projectID = call.projectID}
       /\ \A i, j \in 1..Len(ret) : i < j => ret[i] < ret[j]
  /\ call.op = "listMessages" =>
       /\ Range(ret) = {id \in DOMAIN messages : messages[id].sessionID = call.sessionID}
       /\ \A i, j \in 1..Len(ret) : i < j => ret[i] < ret[j]
       /\ ret = Reverse(listMessagesPage(messages, SurfacePage(call.sessionID)))

\* a listSessions that returns two ids, one of a session without index
\* row, while messages are stored
C29_Witness ==
  /\ call.op = "listSessions"
  /\ Len(ret) = 2
  /\ Range(ret) \ DOMAIN session_index # {}
  /\ DOMAIN session_index # {}
  /\ DOMAIN messages # {}

(***************************************************************************)
(* The page of infos.  Messages of two sessions, a part under one message  *)
(* of the listed session, and every combination of cursor and limit.       *)
(***************************************************************************)
NextInfoPage ==
  \/ \E m \in MessagesWritten : WriteMessage(m)
  \/ \E id \in MessageIDs : RemoveMessage(1, id, NoFail)
  \/ WriteParts(1, SurfaceMessageID, PartsSurface, 0)
  \/ \E input \in JoinPageInputs : ListMessagesInfoPage(input)

SpecInfoPage == InitFresh /\ [][NextInfoPage]_vars

\* C30: listMessagesInfoPage returns, for the ids that listMessagesPage
\* returns for the same input and in that order, one entry each, with the
\* info stored for the message and an empty list of parts.
C30_InfoPageMatchesPage ==
  call.op = "listMessagesInfoPage" =>
    \A page \in {listMessagesPage(messages, call.input)} :
      ret = [i \in 1..Len(page) |->
               [info |-> readMessage(MsgDb, call.input.sessionID, page[i])[1].info,
                parts |-> <<>>]]

\* a page under a cursor and a limit of 2: the message at the cursor is
\* left out, the two below it are returned, and the entry of the message
\* that has a part stored has no parts
C30_Witness ==
  /\ call.op = "listMessagesInfoPage"
  /\ call.input.afterID = MaxMessage
  /\ call.input.limit = 2
  /\ Len(ret) = 2
  /\ ret[2].parts = <<>>
  /\ PartKeysOf(message_parts, call.input.sessionID, ret[2].info.id) # {}
  /\ MaxMessage \in MessageIdsOf(messages, call.input.sessionID)

(***************************************************************************)
(* Deriving the index row.  Payloads with title and directory: one with    *)
(* nothing else, one with every column set, and for each field of the      *)
(* `data` column one payload that sets that field alone, to a value that   *)
(* is true in a condition (a name, true, null for variant, false for       *)
(* thinking) or to one that is false there (the empty string, false, null).*)
(***************************************************************************)
ExtraFields ==
  {"mode", "agent", "model", "variant", "thinking", "worktreeRequested", "worktreeCleanup"}

ExtraSettings ==
  { <<"mode", "build">>, <<"mode", Null>>, <<"agent", "a">>, <<"agent", "">>,
    <<"model", "m">>, <<"variant", "v">>, <<"variant", Null>>,
    <<"thinking", "true">>, <<"thinking", "false">>,
    <<"worktreeRequested", "true">>, <<"worktreeRequested", "false">>,
    <<"worktreeCleanup", "delete">>, <<"worktreeCleanup", Null>> }

PayloadsDerive(id) ==
  { Titled(id, <<"A">>),
    FullSession(id),
    [Titled(id, <<"A">>) EXCEPT !.created = MaxTime],
    [Titled(id, <<"A">>) EXCEPT !.additions = 1],
    [Titled(id, <<"A">>) EXCEPT !.title = UndefT, !.mode = "build"] }
    \cup { [Titled(id, <<"A">>) EXCEPT ![fv[1]] = fv[2]] : fv \in ExtraSettings }

SessionsDerive == UNION {PayloadsDerive(id) : id \in FaultSessionIDs}

NextDerive ==
  \/ \E p \in SessionsDerive : WriteSession(p, NoFail)
  \/ \E id \in FaultSessionIDs : RemoveSession(id, NoFail)
  \/ \E id \in FaultSessionIDs : ReadSessionIndexRow(id)

SpecDerive == InitFresh /\ [][NextDerive]_vars

\* the columns of the derived row that do not come from `data`
DerivedDefaults(p, row) ==
  /\ p.additions = NullInt => row.additions = 0
  /\ p.deletions = NullInt => row.deletions = 0
  /\ p.files = NullInt => row.files_changed = 0
  /\ p.version = Undef => row.version = Null
  /\ p.share_url = Undef => row.share_url = Null
  /\ p.worktree_path = Undef => row.worktree_path = Null
  /\ p.worktree_branch = Undef => row.worktree_branch = Null
  /\ p.archived = NullInt => row.archived_at = NullInt
  /\ p.parentID = NullInt => row.parentID = NullInt
  /\ p.updated = NullInt => row.updated_at = row.created_at
  /\ row.created_at = p.created

\* C31, as stated: the index row of a session written with a non-empty
\* title and directory has 0 for each summary counter the session lacks,
\* NULL for version, share_url, worktree_path, worktree_branch, archived_at
\* and parentID when absent, created_at for updated_at when time.updated is
\* absent, and a `data` column that is not NULL exactly when at least one
\* of mode, agent, model, variant, thinking, worktreeRequested and
\* worktreeCleanup is set on the session.
C31_DataIffAnyFieldSet ==
  (/\ call.op = "writeSession"
   /\ ~call.err
   /\ IsStringT(call.input.title) /\ call.input.title # <<>>
   /\ IsString(call.input.directory) /\ call.input.directory # "") =>
    /\ call.id \in DOMAIN session_index
    /\ DerivedDefaults(call.input, session_index[call.id])
    /\ session_index[call.id].data # <<>>
         <=> \E f \in ExtraFields : call.input[f] # Undef

\* C31, amended: the same, with the `data` column not NULL exactly when
\* mode, agent, model or worktreeCleanup has a value that is true in a
\* condition, or worktreeRequested has, or variant or thinking is not
\* undefined (null and false included).
C31_DataIffAnyFieldKept ==
  (/\ call.op = "writeSession"
   /\ ~call.err
   /\ IsStringT(call.input.title) /\ call.input.title # <<>>
   /\ IsString(call.input.directory) /\ call.input.directory # "") =>
    /\ call.id \in DOMAIN session_index
    /\ DerivedDefaults(call.input, session_index[call.id])
    /\ session_index[call.id].data # <<>>
         <=> \/ \E f \in {"mode", "agent", "model", "worktreeCleanup"} :
                  call.input[f] \notin {Undef, Null, ""}
             \/ call.input.worktreeRequested = "true"
             \/ call.input.variant # Undef
             \/ call.input.thinking # Undef

\* a session written with title, directory and thinking: false alone: its
\* row has the defaults and a `data` column
C31_Witness ==
  /\ call.op = "writeSession"
  /\ call.input.thinking = "false"
  /\ call.id \in DOMAIN session_index
  /\ session_index[call.id].data # <<>>
  /\ session_index[call.id].additions = 0
  /\ session_index[call.id].version = Null

(***************************************************************************)
(* Listing the children of a session.  Session 1 is a root; every other    *)
(* session is a child of session 1 (in either project, with or without     *)
(* time.updated) or a child of session 2, which makes it a grandchild of   *)
(* session 1.  No session names itself as its parent.  The database starts *)
(* as one written before the index existed, holding any of the sessions of *)
(* the chain 1 <- 2 <- 3.                                                  *)
(***************************************************************************)
Child(id, parentID) == [Titled(id, <<"A">>) EXCEPT !.parentID = parentID, !.updated = 0]

PayloadsChildren(id) ==
  IF id = 1 THEN {Child(1, NullInt)}
  ELSE { Child(id, 1),
         [Child(id, 1) EXCEPT !.projectID = "p2", !.updated = MaxTime],
         [Child(id, 1) EXCEPT !.updated = NullInt] }
         \cup (IF id = 2 THEN {} ELSE {Child(id, 2)})

ChainSession(id) == Child(id, IF id = 1 THEN NullInt ELSE id - 1)

InitChildren ==
  /\ InitCommon
  /\ \E ids \in SUBSET ListSessionIDs :
       sessions = [id \in ids |-> LegacyRow(ChainSession(id))]

SessionsChildren == UNION {PayloadsChildren(id) : id \in ListSessionIDs}

NextChildren ==
  \/ \E p \in SessionsChildren : WriteSession(p, NoFail)
  \/ \E id \in ListSessionIDs : ListSessionIndexChildren(id)

SpecChildren == InitChildren /\ [][NextChildren]_vars

\* C32: listSessionIndexChildren(P) leaves the store seeded, after a sweep
\* that gives every stored session with title and directory its index row
\* when the store was not seeded, and returns the rows of session_index
\* whose parentID is P, of whatever project, each once: not the row of P,
\* not the rows of the children of those rows; a row with a greater
\* updated_at comes first (NULL last), and of two rows with the same
\* updated_at the one with the greater id.
C32_ChildrenAreDirectChildren ==
  [][call'.op = "listSessionIndexChildren" =>
       /\ Seeded'
       /\ ~call'.seeded =>
            \A id \in DOMAIN sessions :
              sessionIndexRow(JSONparse(sessions[id].data)) # <<>> =>
                Get(session_index', id) = sessionIndexRow(JSONparse(sessions[id].data))
       /\ Range(ret') = {session_index'[id] : id \in
                           {x \in DOMAIN session_index' :
                              session_index'[x].parentID = call'.id}}
       /\ \A i \in 1..Len(ret') :
            /\ ret'[i].id # call'.id
            /\ ret'[i].parentID = call'.id
       /\ \A i, j \in 1..Len(ret') :
            i < j =>
              \/ ret'[i].updated_at # NullInt /\ ret'[j].updated_at = NullInt
              \/ /\ ret'[i].updated_at # NullInt
                 /\ ret'[i].updated_at > ret'[j].updated_at
              \/ ret'[i].updated_at = ret'[j].updated_at /\ ret'[i].id > ret'[j].id]_vars

\* the first index read of a store: it returns the one child of session 1,
\* a session of the other project, and leaves out session 1 and the indexed
\* child of that child
C32_Witness ==
  /\ call.op = "listSessionIndexChildren"
  /\ ~call.seeded
  /\ call.id = 1
  /\ Len(ret) = 1
  /\ ret[1].projectID = "p2"
  /\ \E id \in DOMAIN session_index : session_index[id].parentID = ret[1].id
  /\ 1 \in DOMAIN session_index

(***************************************************************************)
(* A caller that pages through the session index of a project: a first     *)
(* listSessionIndex with a limit, then one with afterID set to the id of   *)
(* the last row of the page before, until a page comes back with fewer     *)
(* rows than the limit.  Sessions are written between the fetches; every   *)
(* payload has time.updated.  pager.acc is the list of the ids returned so *)
(* far.                                                                    *)
(***************************************************************************)
IdsOf(rows) == [i \in 1..Len(rows) |-> rows[i].id]

IndexPageFirst(projectID, k) ==
  /\ pager.phase = "idle"
  /\ SweepAllowed
  /\ \E input \in {[BaseQuery(projectID) EXCEPT !.limit = k]} :
       \E r \in {listSessionIndex(Db, input)} :
         /\ SetDb(r.db)
         /\ pager' = [phase |-> IF Len(r.value) < k THEN "done" ELSE "paging",
                      projectID |-> projectID, k |-> k,
                      acc |-> IdsOf(r.value), pages |-> 1]
         /\ ret' = r.value
         /\ call' = [op |-> "listSessionIndex", input |-> input, err |-> FALSE,
                     seeded |-> Seeded]
  /\ UNCHANGED <<messages, message_parts, session_diff>>

IndexPageNext ==
  /\ pager.phase = "paging"
  /\ pager.pages < MaxPages
  /\ SweepAllowed
  /\ \E input \in {[BaseQuery(pager.projectID) EXCEPT !.limit = pager.k,
                                                     !.afterID = pager.acc[Len(pager.acc)]]} :
       \E r \in {listSessionIndex(Db, input)} :
         /\ SetDb(r.db)
         /\ pager' = [pager EXCEPT !.phase = IF Len(r.value) < pager.k THEN "done"
                                              ELSE "paging",
                                   !.acc = pager.acc \o IdsOf(r.value),
                                   !.pages = pager.pages + 1]
         /\ ret' = r.value
         /\ call' = [op |-> "listSessionIndex", input |-> input, err |-> FALSE,
                     seeded |-> Seeded]
  /\ UNCHANGED <<messages, message_parts, session_diff>>

PayloadsIndexPage(id) == { [Titled(id, <<"A">>) EXCEPT !.updated = u] : u \in Times }

SessionsIndexPage == UNION {PayloadsIndexPage(id) : id \in SessionIDs}

NextIndexPage ==
  \/ \E p \in SessionsIndexPage : WriteSession(p, NoFail)
  \/ \E k \in 1..MaxLimit : IndexPageFirst("p1", k)
  \/ IndexPageNext

SpecIndexPage == InitFresh /\ [][NextIndexPage]_vars

\* C33: in a paging run over the session index, with sessions written
\* between the fetches (the session used as cursor included), no session id
\* is returned by two pages of the run.
C33_NoIdOnTwoPages ==
  pager.phase # "idle" =>
    \A i, j \in 1..Len(pager.acc) : i # j => pager.acc[i] # pager.acc[j]

(***************************************************************************)
(* Paging through the messages of a session while messages are appended:   *)
(* between the fetches of a run, messages are written, to either session,  *)
(* with an id greater than every id stored.                                *)
(***************************************************************************)
AppendWhilePaging(m) ==
  /\ pager.phase = "paging"
  /\ m.info # <<>>
  /\ \A id \in DOMAIN messages : m.info[1].id > id
  /\ WriteMessage(m)

NextAppend ==
  \/ \E m \in MessagesPaged : WriteBeforePaging(m)
  \/ \E sid \in SessionIDs : \E k \in 1..MaxLimit : PageFirst(sid, k)
  \/ \E m \in MessagesPaged : AppendWhilePaging(m)
  \/ PageNext

SpecAppend == InitFresh /\ [][NextAppend]_vars

\* C34: in a paging run of listMessagesPage during which messages are
\* appended, the pages put together are descending (no id twice), hold
\* only ids the session held when the first page was fetched, so none of
\* the appended ones, leave out none of those above the last id returned,
\* and hold all of them when the run has ended on a short page.
C34_PagesAreTheSnapshot ==
  pager.phase # "idle" =>
    /\ \A i, j \in 1..Len(pager.acc) : i < j => pager.acc[i] > pager.acc[j]
    /\ Range(pager.acc) \subseteq pager.snapshot
    /\ \A x \in Range(pager.acc) : \A y \in pager.snapshot \ Range(pager.acc) : x > y
    /\ pager.phase = "done" => Range(pager.acc) = pager.snapshot

\* a run of two pages, by two, over the three messages a session held at
\* the start, ended, with a message appended to the session during the run
C34_Witness ==
  /\ pager.phase = "done"
  /\ pager.k = 2
  /\ pager.pages = 2
  /\ pager.acc = <<3, 2, 1>>
  /\ MessageIdsOf(messages, pager.sessionID) = {1, 2, 3, 4}

(***************************************************************************)
(* Removing a session that has messages, parts and a diff.  Two sessions,  *)
(* one message id and one part id; the environment may make either         *)
(* statement of removeSession throw.                                       *)
(***************************************************************************)
NextCascade ==
  \/ \E p \in SessionsReads : WriteSession(p, NoFail)
  \/ \E id \in ReadSessionIDs :
       \E fail \in {NoFail, "sessions", "index"} : RemoveSession(id, fail)
  \/ \E m \in MessagesReads : WriteMessage(m)
  \/ \E sid \in ReadSessionIDs :
       WriteParts(sid, SurfaceMessageID, PartsSurface, 0)
  \/ \E sid \in ReadSessionIDs : WriteDiff(sid, DiffWritten)
  \/ \E sid \in ReadSessionIDs : RemoveMessages(sid, NoFail)
  \/ \E sid \in ReadSessionIDs : RemoveDiff(sid)
  \/ \E sid \in ReadSessionIDs : CountMessages(sid)
  \/ \E sid \in ReadSessionIDs : ListMessages(sid)
  \/ EnsureSessionIndex

SpecCascade == InitFresh /\ [][NextCascade]_vars

\* C35: a removeSession(id), whether it returns or throws, leaves
\* messages, message_parts, session_diff and meta as they were and leaves
\* the sessions and session_index rows of every other id as they were; the
\* messages of the session are counted and listed as before, until
\* removeMessages takes them away, and its diff stays until removeDiff.
C35_RemoveSessionDoesNotCascade ==
  [][/\ call'.op = "removeSession" =>
          /\ messages' = messages
          /\ message_parts' = message_parts
          /\ session_diff' = session_diff
          /\ meta' = meta
          /\ \A id \in SessionIDs \ {call'.id} :
               /\ Get(sessions', id) = Get(sessions, id)
               /\ Get(session_index', id) = Get(session_index, id)
          /\ countMessages([MsgDb EXCEPT !.messages = messages'], call'.id)
               = countMessages(MsgDb, call'.id)
          /\ listMessages([MsgDb EXCEPT !.messages = messages'], call'.id)
               = listMessages(MsgDb, call'.id)
     /\ \A sid \in SessionIDs :
          /\ MessageIdsOf(messages, sid) \ MessageIdsOf(messages', sid) # {} =>
               \/ call'.op = "removeMessages" /\ call'.sessionID = sid
               \/ call'.op = "writeMessage"
          /\ sid \in DOMAIN session_diff \ DOMAIN session_diff' =>
               call'.op = "removeDiff" /\ call'.sessionID = sid]_vars

\* a removeSession that returned for a session that has a message, a part
\* and a diff, all still stored, while the other session is stored and
\* indexed
C35_Witness ==
  /\ call.op = "removeSession"
  /\ ~call.err
  /\ call.id \notin DOMAIN sessions
  /\ call.id \notin DOMAIN session_index
  /\ countMessages(MsgDb, call.id) = 1
  /\ PartKeysOf(message_parts, call.id, SurfaceMessageID) # {}
  /\ call.id \in DOMAIN session_diff
  /\ \E other \in DOMAIN session_index : other # call.id /\ other \in DOMAIN sessions
  /\ Seeded

(***************************************************************************)
(* Writing a stored message id under another session.  Two message ids and *)
(* two sessions; message 1 has a part written under either session, with   *)
(* content "x" under session 1 and "y" under the other, so that a part in  *)
(* a listing tells the key it was stored under.                            *)
(***************************************************************************)
PartOf(sid) == Part(SurfacePartID, IF sid = 1 THEN "x" ELSE "y")

PartsMoved == { [sessionID |-> sid, parts |-> <<PartOf(sid)>>] : sid \in JoinSessionIDs }
PagesMoved == { SurfacePage(sid) : sid \in JoinSessionIDs }

NextMove ==
  \/ \E m \in MessagesJoined : WriteMessage(m)
  \/ \E w \in PartsMoved : WriteParts(w.sessionID, SurfaceMessageID, w.parts, 0)
  \/ \E input \in PagesMoved : ListMessagesWithPartsPage(input)
  \/ \E sid \in JoinSessionIDs : CountMessages(sid)
  \/ \E sid \in JoinSessionIDs : ListMessages(sid)

SpecMove == InitFresh /\ [][NextMove]_vars

\* C36: a writeMessage of an id that is stored under another session
\* leaves one row with that id, under the new session: readMessage finds
\* it under the new session alone, the old session lists and counts one
\* message less and the new session one more; message_parts is unchanged;
\* and in the listMessagesWithPartsPage of either session no part stored
\* under the old session and that id is returned: the old session has no
\* entry for the id and the entry in the new session has the parts stored
\* under the new session and the id.
C36_MessageMovesPartsStay ==
  [][(/\ call'.op = "writeMessage"
      /\ call'.input.info # <<>>
      /\ call'.input.info[1].id \in DOMAIN messages
      /\ messages[call'.input.info[1].id].sessionID # call'.input.info[1].sessionID) =>
       \A id \in {call'.input.info[1].id} :
         \A old \in {messages[id].sessionID} :
           \A new \in {call'.input.info[1].sessionID} :
             \A after \in {[messages |-> messages', message_parts |-> message_parts']} :
               /\ readMessage(after, new, id) # <<>>
               /\ \A sid \in SessionIDs \ {new} : readMessage(after, sid, id) = <<>>
               /\ id \notin Range(listMessages(after, old))
               /\ id \in Range(listMessages(after, new))
               /\ countMessages(after, old) = countMessages(MsgDb, old) - 1
               /\ countMessages(after, new) = countMessages(MsgDb, new) + 1
               /\ message_parts' = message_parts
               /\ \A page \in {listMessagesWithPartsPage(after, SurfacePage(old))} :
                    \A i \in 1..Len(page) : page[i].info.id # id
               /\ \A page \in {listMessagesWithPartsPage(after, SurfacePage(new))} :
                    \A i \in 1..Len(page) :
                      page[i].info.id = id => page[i].parts = readParts(after, new, id)]_vars

\* message 1 written under the other session while it has a part under the
\* session it was stored under and a part under the new session: the part
\* of the old key stays stored, and the other message stays in the old
\* session
C36_Witness ==
  /\ call.op = "writeMessage"
  /\ call.replaced
  /\ call.input.info[1] = Info(SurfaceMessageID, MaxSession)
  /\ readParts(MsgDb, 1, SurfaceMessageID) = <<PartOf(1)>>
  /\ readParts(MsgDb, MaxSession, SurfaceMessageID) = <<PartOf(MaxSession)>>
  /\ listMessagesWithPartsPage(MsgDb, SurfacePage(MaxSession))
       = <<[info |-> Info(SurfaceMessageID, MaxSession), parts |-> <<PartOf(MaxSession)>>]>>
  /\ countMessages(MsgDb, 1) = 1

(***************************************************************************)
(* The backfill of a store that this code filled.  The database starts     *)
(* empty and unseeded; sessions are written with one of two titles or with *)
(* none, removed (the second DELETE may throw, which leaves an index row   *)
(* without a canonical session), index rows are written through the        *)
(* exported writeSessionIndex, and ensureSessionIndex runs.                *)
(***************************************************************************)
PayloadsRedundant(id) ==
  { Titled(id, <<"A">>), Titled(id, <<"B">>), [Titled(id, <<"A">>) EXCEPT !.title = UndefT] }

SessionsRedundant == UNION {PayloadsRedundant(id) : id \in SessionIDs}

NextRedundantWrites ==
  \/ \E p \in SessionsRedundant : WriteSession(p, NoFail)
  \/ \E id \in SessionIDs : \E fail \in {NoFail, "index"} : RemoveSession(id, fail)
  \/ EnsureSessionIndex

NextRedundant ==
  \/ NextRedundantWrites
  \/ \E p \in SessionsRedundant : WriteSessionIndex(p)

SpecRedundant == InitFresh /\ [][NextRedundant]_vars

\* C37: in a store whose canonical sessions were all stored through
\* writeSession, an ensureSessionIndex that starts unseeded leaves
\* session_index as it was (no row deleted, no row changed, the rows whose
\* id has no canonical session included) and sessions as it was, and
\* changes meta by setting the seeded flag alone.
C37_SweepIsRedundant ==
  [][(call'.op = "ensureSessionIndex" /\ ~call'.seeded) =>
       /\ session_index' = session_index
       /\ sessions' = sessions
       /\ meta' = metaSet(meta, SeededKey, "1")]_vars

(***************************************************************************)
(* Every read of the public surface, on one session with one message, one  *)
(* part and one diff.  The database starts as a file written before the    *)
(* index existed (empty, or holding the session with or without a title),  *)
(* so the first index read runs the backfill; the flag can be cleared and  *)
(* set through metaSet.                                                    *)
(***************************************************************************)
PayloadsPure == { Titled(PartSessionID, <<"A">>),
                  [Titled(PartSessionID, <<"A">>) EXCEPT !.title = UndefT] }

InitPure ==
  /\ InitCommon
  /\ sessions \in {EmptyTable} \cup
                  { Put(EmptyTable, PartSessionID, LegacyRow(p)) : p \in PayloadsPure }

MessagePure == [info |-> <<Info(SurfaceMessageID, PartSessionID)>>, parts |-> <<>>]
PagePure == SurfacePage(PartSessionID)

NextPureWrites ==
  \/ \E p \in PayloadsPure : WriteSession(p, NoFail)
  \/ WriteMessage(MessagePure)
  \/ WriteParts(PartSessionID, SurfaceMessageID, PartsSurface, 0)
  \/ WriteDiff(PartSessionID, DiffWritten)
  \/ \E value \in {"1", ""} : MetaSet(SeededKey, value)

NextPureReads ==
  \/ ReadSession(PartSessionID)
  \/ ListSessions("p1")
  \/ ReadMessage(PartSessionID, SurfaceMessageID)
  \/ ListMessages(PartSessionID)
  \/ ListMessagesPage(PagePure)
  \/ ListMessagesInfoPage(PagePure)
  \/ ListMessagesWithPartsPage(PagePure)
  \/ CountMessages(PartSessionID)
  \/ ReadParts(PartSessionID, SurfaceMessageID)
  \/ ReadDiff(PartSessionID)
  \/ \E key \in SurfaceKeys : MetaGet(key)

NextPureIndexReads ==
  \/ ReadSessionIndexRow(PartSessionID)
  \/ ListSessionIndex(WholeProject)
  \/ ListSessionIndexChildren(PartSessionID)

NextPure ==
  \/ NextPureWrites
  \/ NextPureReads
  \/ NextPureIndexReads

SpecPure == InitPure /\ [][NextPure]_vars

PureReads ==
  {"readSession", "listSessions", "readMessage", "listMessages", "listMessagesPage",
   "listMessagesInfoPage", "listMessagesWithPartsPage", "countMessages", "readParts",
   "readDiff", "metaGet"}

\* C38: readSession, listSessions, readMessage, listMessages,
\* listMessagesPage, listMessagesInfoPage, listMessagesWithPartsPage,
\* countMessages, readParts, readDiff and metaGet change no table;
\* readSessionIndexRow, listSessionIndex and listSessionIndexChildren never
\* change sessions, messages, message_parts or session_diff, change nothing
\* at all when the store is seeded, and when it is unseeded change
\* session_index and the seeded flag alone.
C38_ReadsLeaveTheStoreAlone ==
  [][/\ call'.op \in PureReads => tables' = tables
     /\ call'.op \in IndexReads =>
          /\ <<sessions, messages, message_parts, session_diff>>' =
               <<sessions, messages, message_parts, session_diff>>
          /\ call'.seeded => session_index' = session_index /\ meta' = meta
          /\ \A key \in (DOMAIN meta \cup DOMAIN meta') \ {SeededKey} :
               /\ key \in DOMAIN meta
               /\ key \in DOMAIN meta'
               /\ meta'[key] = meta[key]]_vars

\* an index read on an unseeded store that held a titled session, a
\* message, a part and a diff has backfilled the index row and set the flag
C38_Witness ==
  /\ call.op \in IndexReads
  /\ ~call.seeded
  /\ Seeded
  /\ PartSessionID \in DOMAIN sessions
  /\ PartSessionID \in DOMAIN session_index
  /\ messages # EmptyTable
  /\ message_parts # EmptyTable
  /\ session_diff # EmptyTable

====
